---- MODULE Spec2Model ----
(***************************************************************************)
(* A state-machine model of the SCHED_DEADLINE scheduling class            *)
(* (kernel/sched_dl.c): EDF ready trees, CBS budget enforcement, the       *)
(* replenishment timer, overload tracking and push/pull migration.         *)
(*                                                                         *)
(* Every hook of the class is a function from a state record               *)
(*     s = [t |-> tasks, q |-> runqueues, rd |-> root domain, clock]       *)
(* to a state record, written after the C code it models, so that hooks    *)
(* that call each other compose as they do in the source.  The actions at  *)
(* the end apply one whole hook (one rq-lock critical section) per step.   *)
(*                                                                         *)
(* Time is counted in whole microseconds, so ktime_us_delta() is exact.    *)
(* 64-bit unsigned values are kept modulo 2^WordBits.                      *)
(***************************************************************************)
EXTENDS Integers, Sequences, FiniteSets, TLC

VARIABLES
    tasks,   \* task -> its task_struct / sched_dl_entity fields
    rqs,     \* cpu  -> its struct rq / struct dl_rq fields
    rd,      \* the root domain: dlo_mask, dlo_count
    clock,   \* rq->clock (all runqueues read the same scheduler clock)
    hrskew,  \* how far the hrtimer time base is ahead of rq->clock
    bug,     \* the BUG_ON()/WARN_ON() assertions that have fired
    pc       \* the position of the step-wise processes of the scenario specifications

vars == <<tasks, rqs, rd, clock, hrskew, bug, pc>>

---------------------------------------------------------------------------
(* Bounds of the model *)

MaxClock == 1
MaxClockCbs == 3
ClockSkew == 1
NsPerUs == 2
MaxClockHog == 6
TickGap == 2
MaxClockS1 == 45
WordBits == 8
IntBits == 6
DL_MAX_TRIES == 3

CPUs == {0, 1}
Tasks == {1, 2, 3}
NoTask == 0
NoCpu == -1

TwoW == 2 ^ WordBits
U64(x) == x % TwoW
S64(x) == IF U64(x) >= TwoW \div 2 THEN U64(x) - TwoW ELSE U64(x)
LONG_MAX == (TwoW \div 2) - 1
\* The value of a u64 after a round trip through a C int.
AsInt(x) ==
    LET m == x % (2 ^ IntBits)
    IN  U64(IF m >= 2 ^ (IntBits - 1) THEN m - 2 ^ IntBits ELSE m)

FLAG_SF_HEAD == "SF_HEAD"
FLAG_SF_BWRECL_DL == "SF_BWRECL_DL"

ENQUEUE_WAKEUP == "ENQUEUE_WAKEUP"
ENQUEUE_REPLENISH == "ENQUEUE_REPLENISH"

---------------------------------------------------------------------------
(* Sequences standing for the rb-trees, in in-order *)

SeqSet(seq) == {seq[i] : i \in 1..Len(seq)}
InSeq(seq, x) == x \in SeqSet(seq)
IndexOf(seq, x) == CHOOSE i \in 1..Len(seq) : seq[i] = x
RemoveFrom(seq, x) == SelectSeq(seq, LAMBDA y : y # x)
InsertAt(seq, i, x) == SubSeq(seq, 1, i - 1) \o <<x>> \o SubSeq(seq, i, Len(seq))

\* rb_next(): the in-order successor, NULL (NoTask) at the end.
rb_next(seq, x) ==
    IF x = NoTask \/ ~InSeq(seq, x) \/ IndexOf(seq, x) = Len(seq)
    THEN NoTask
    ELSE seq[IndexOf(seq, x) + 1]

---------------------------------------------------------------------------
(* Deadline arithmetic *)

dl_time_before(a, b) == S64(a - b) < 0

Flags(s, p) == IF p = NoTask THEN {} ELSE s.t[p].flags
Deadline(s, p) == IF p = NoTask THEN 0 ELSE s.t[p].deadline

\* Tells if entity a should preempt entity b.
dl_entity_preempt(s, a, b) ==
    \/ FLAG_SF_HEAD \in Flags(s, a)
    \/ /\ FLAG_SF_HEAD \notin Flags(s, b)
       /\ dl_time_before(Deadline(s, a), Deadline(s, b))

\* dl_task(p): p runs in the deadline class.  NoTask stands for the idle
\* task or a task of a lower class.
dl_task(s, p) == p # NoTask

SCHED_DEADLINE == "SCHED_DEADLINE"
SCHED_NORMAL == "SCHED_NORMAL"
dl_policy(policy) == policy = SCHED_DEADLINE
__dl_task(s, p) == dl_policy(s.t[p].policy)

\* to_ratio() of kernel/sched.c: runtime / period in units of 2^-20.
to_ratio(period, runtime) == (runtime * 1048576) \div period
task_current(s, c, p) == s.q[c].curr = p
task_running(s, c, p) == s.q[c].curr = p
on_dl_rq(s, p) == \E c \in DOMAIN s.q : InSeq(s.q[c].tree, p)
task_cpu(s, p) == s.t[p].cpu

Bug(s, what) == [s EXCEPT !.bug = @ \cup {what}]

\* A local variable: Op's parameter stands for the value v.
Bind(v, Op(_)) == Op(v)

---------------------------------------------------------------------------
(* Overload tracking (CONFIG_SMP) *)

dl_overloaded(s) == s.rd.dlo_count

\* dl_set_overload() in its two stores: the mask bit, then (after the write
\* barrier) the counter.
dl_set_overload_mask(s, c) == [s EXCEPT !.rd.dlo_mask = @ \cup {c}]
dl_set_overload_count(s, c) == [s EXCEPT !.rd.dlo_count = @ + 1]

dl_set_overload(s, c) ==
    IF ~s.q[c].online THEN s
    ELSE dl_set_overload_count(dl_set_overload_mask(s, c), c)

\* dl_clear_overload() in its two stores: the counter, then the mask bit.
dl_clear_overload_count(s, c) == [s EXCEPT !.rd.dlo_count = @ - 1]
dl_clear_overload_mask(s, c) == [s EXCEPT !.rd.dlo_mask = @ \ {c}]

dl_clear_overload(s, c) ==
    IF ~s.q[c].online THEN s
    ELSE dl_clear_overload_mask(dl_clear_overload_count(s, c), c)

update_dl_migration(s, c) ==
    IF s.q[c].dl_nr_migratory # 0 /\ s.q[c].dl_nr_total > 1
    THEN IF ~s.q[c].overloaded
         THEN [dl_set_overload(s, c) EXCEPT !.q[c].overloaded = TRUE]
         ELSE s
    ELSE IF s.q[c].overloaded
         THEN [dl_clear_overload(s, c) EXCEPT !.q[c].overloaded = FALSE]
         ELSE s

inc_dl_migration(s, p, c) ==
    update_dl_migration(
        [s EXCEPT !.q[c].dl_nr_total = @ + 1,
                  !.q[c].dl_nr_migratory =
                      IF s.t[p].nr_cpus_allowed > 1 THEN @ + 1 ELSE @], c)

dec_dl_migration(s, p, c) ==
    update_dl_migration(
        [s EXCEPT !.q[c].dl_nr_total = @ - 1,
                  !.q[c].dl_nr_migratory =
                      IF s.t[p].nr_cpus_allowed > 1 THEN @ - 1 ELSE @], c)

---------------------------------------------------------------------------
(* The pushable tree *)

\* The in-order position the descent of enqueue_pushable_dl_task() ends at:
\* left of the first entry that does not preempt p.
PushablePos(s, seq, p) ==
    IF \E i \in 1..Len(seq) : ~dl_entity_preempt(s, seq[i], p)
    THEN CHOOSE i \in 1..Len(seq) :
            /\ ~dl_entity_preempt(s, seq[i], p)
            /\ \A j \in 1..(i - 1) : dl_entity_preempt(s, seq[j], p)
    ELSE Len(seq) + 1

in_pushable(s, p) == \E c \in DOMAIN s.q : InSeq(s.q[c].pushable, p)

enqueue_pushable_dl_task(s, c, p) ==
    IF in_pushable(s, p) THEN Bug(s, "enqueue_pushable_dl_task")
    ELSE LET pos == PushablePos(s, s.q[c].pushable, p)
         IN  [s EXCEPT !.q[c].pushable = InsertAt(@, pos, p),
                       !.q[c].pushable_leftmost = IF pos = 1 THEN p ELSE @]

dequeue_pushable_dl_task(s, c, p) ==
    IF ~InSeq(s.q[c].pushable, p) THEN s
    ELSE [s EXCEPT !.q[c].pushable_leftmost =
                       IF @ = p THEN rb_next(s.q[c].pushable, p) ELSE @,
                   !.q[c].pushable = RemoveFrom(@, p)]

has_pushable_dl_tasks(s, c) == s.q[c].pushable # <<>>

---------------------------------------------------------------------------
(* earliest_dl.curr / earliest_dl.next (CONFIG_SMP) *)

pick_dl_task(s, c, p, cpu) ==
    /\ ~task_running(s, c, p)
    /\ (cpu < 0 \/ cpu \in s.t[p].cpus_allowed)
    /\ s.t[p].nr_cpus_allowed > 1

\* pick_next_earliest_dl_task() as it would be if it started at the
\* leftmost node itself.
pick_next_earliest_dl_task_first(s, c, cpu) ==
    LET tree == s.q[c].tree
        cand == {i \in 1..Len(tree) : pick_dl_task(s, c, tree[i], cpu)}
    IN  IF cand = {} THEN NoTask
        ELSE tree[CHOOSE i \in cand : \A j \in cand : i <= j]

\* Walks rb_next() from the cached leftmost node and returns the first
\* entity pick_dl_task() accepts, NULL (NoTask) otherwise.
pick_next_earliest_dl_task(s, c, cpu) ==
    LET tree == s.q[c].tree
        lm == s.q[c].rb_leftmost
        start == IF InSeq(tree, lm) THEN IndexOf(tree, lm) ELSE Len(tree)
        cand == {i \in (start + 1)..Len(tree) : pick_dl_task(s, c, tree[i], cpu)}
    IN  IF cand = {} THEN NoTask
        ELSE tree[CHOOSE i \in cand : \A j \in cand : i <= j]

\* Declared int in the source: the u64 deadline goes through an int.
next_deadline(s, c) ==
    LET next == pick_next_earliest_dl_task(s, c, c)
    IN  IF next # NoTask /\ dl_task(s, next) THEN AsInt(s.t[next].deadline) ELSE 0

inc_dl_deadline(s, c, deadline) ==
    IF s.q[c].earliest_curr = 0 \/ dl_time_before(deadline, s.q[c].earliest_curr)
    THEN [s EXCEPT !.q[c].earliest_next = s.q[c].earliest_curr,
                   !.q[c].earliest_curr = deadline]
    ELSE IF s.q[c].earliest_next = 0 \/ dl_time_before(deadline, s.q[c].earliest_next)
         THEN [s EXCEPT !.q[c].earliest_next = next_deadline(s, c)]
         ELSE s

dec_dl_deadline(s, c, deadline) ==
    IF s.q[c].dl_nr_running = 0
    THEN [s EXCEPT !.q[c].earliest_curr = 0, !.q[c].earliest_next = 0]
    ELSE [s EXCEPT !.q[c].earliest_curr = Deadline(s, s.q[c].rb_leftmost),
                   !.q[c].earliest_next = next_deadline(s, c)]

inc_dl_tasks(s, p, c) ==
    LET s1 == [s EXCEPT !.q[c].dl_nr_running = @ + 1]
    IN  inc_dl_migration(inc_dl_deadline(s1, c, s.t[p].deadline), p, c)

dec_dl_tasks(s, p, c) ==
    LET s1 == [s EXCEPT !.q[c].dl_nr_running = @ - 1]
    IN  dec_dl_migration(dec_dl_deadline(s1, c, s.t[p].deadline), p, c)

---------------------------------------------------------------------------
(* The ready tree *)

\* The in-order position the descent of __enqueue_dl_entity() ends at: left
\* of the first entry that p preempts.
TreePos(s, seq, p) ==
    IF \E i \in 1..Len(seq) : dl_entity_preempt(s, p, seq[i])
    THEN CHOOSE i \in 1..Len(seq) :
            /\ dl_entity_preempt(s, p, seq[i])
            /\ \A j \in 1..(i - 1) : ~dl_entity_preempt(s, p, seq[j])
    ELSE Len(seq) + 1

\* The entity is linked into the tree of its task's runqueue (dl_rq_of_se).
__enqueue_dl_entity(s, p) ==
    LET c == task_cpu(s, p)
        pos == TreePos(s, s.q[c].tree, p)
        s1 == [s EXCEPT !.q[c].tree = InsertAt(@, pos, p),
                        !.q[c].rb_leftmost = IF pos = 1 THEN p ELSE @]
    IN  inc_dl_tasks(s1, p, c)

__dequeue_dl_entity(s, p) ==
    LET c == task_cpu(s, p)
    IN  IF ~InSeq(s.q[c].tree, p) THEN s
        ELSE LET s1 == [s EXCEPT !.q[c].rb_leftmost =
                                     IF @ = p THEN rb_next(s.q[c].tree, p) ELSE @,
                                 !.q[c].tree = RemoveFrom(@, p)]
             IN  dec_dl_tasks(s1, p, c)

---------------------------------------------------------------------------
(* CBS: instance start, replenishment, enqueue update *)

setup_new_dl_entity(s, p, pi) ==
    [s EXCEPT !.t[p].deadline = U64(s.clock + s.t[pi].dl_deadline),
              !.t[p].runtime = s.t[pi].dl_runtime,
              !.t[p].dl_new = FALSE]

\* while (dl_se->runtime <= 0) { deadline += dl_period; runtime += dl_runtime; }
RECURSIVE ReplenishLoop(_, _, _)
ReplenishLoop(e, pi, fuel) ==
    IF e.runtime <= 0 /\ fuel > 0
    THEN ReplenishLoop([runtime |-> e.runtime + pi.dl_runtime,
                        deadline |-> U64(e.deadline + pi.dl_period)],
                       pi, fuel - 1)
    ELSE e

replenish_dl_entity_no_reset(s, p, pi) ==
    Bind(ReplenishLoop([runtime |-> s.t[p].runtime, deadline |-> s.t[p].deadline],
                       s.t[pi], TwoW), LAMBDA e :
        [s EXCEPT !.t[p].deadline = e.deadline, !.t[p].runtime = e.runtime])

replenish_dl_entity_once(s, p, pi) ==
    Bind(ReplenishLoop([runtime |-> s.t[p].runtime, deadline |-> s.t[p].deadline],
                       s.t[pi], 1), LAMBDA e :
        IF dl_time_before(e.deadline, s.clock)
        THEN [s EXCEPT !.t[p].deadline = U64(s.clock + s.t[pi].dl_deadline),
                       !.t[p].runtime = s.t[pi].dl_runtime]
        ELSE [s EXCEPT !.t[p].deadline = e.deadline,
                       !.t[p].runtime = e.runtime])

replenish_dl_entity(s, p, pi) ==
    Bind(ReplenishLoop([runtime |-> s.t[p].runtime, deadline |-> s.t[p].deadline],
                       s.t[pi], TwoW), LAMBDA e :
        IF dl_time_before(e.deadline, s.clock)
        THEN [s EXCEPT !.t[p].deadline = U64(s.clock + s.t[pi].dl_deadline),
                       !.t[p].runtime = s.t[pi].dl_runtime]
        ELSE [s EXCEPT !.t[p].deadline = e.deadline,
                       !.t[p].runtime = e.runtime])

dl_entity_overflow_or_equal(s, p, pi, t) ==
    LET left == U64(s.t[pi].dl_deadline * s.t[p].runtime)
        right == U64((s.t[p].deadline - t) * s.t[pi].dl_runtime)
    IN  ~dl_time_before(left, right)

dl_entity_overflow(s, p, pi, t) ==
    LET left == U64(s.t[pi].dl_deadline * s.t[p].runtime)
        right == U64((s.t[p].deadline - t) * s.t[pi].dl_runtime)
    IN  dl_time_before(right, left)

update_dl_entity_renew(s, p, pi) ==
    [s EXCEPT !.t[p].deadline = U64(s.clock + s.t[pi].dl_deadline),
              !.t[p].runtime = s.t[pi].dl_runtime,
              !.t[p].dl_new = FALSE]

update_dl_entity(s, p, pi) ==
    IF s.t[p].dl_new THEN setup_new_dl_entity(s, p, pi)
    ELSE IF \/ dl_time_before(s.t[p].deadline, s.clock)
            \/ dl_entity_overflow(s, p, pi, s.clock)
         THEN [s EXCEPT !.t[p].deadline = U64(s.clock + s.t[pi].dl_deadline),
                        !.t[p].runtime = s.t[pi].dl_runtime]
         ELSE s

---------------------------------------------------------------------------
(* The replenishment timer *)

\* The clocks count nanoseconds; C's division truncates toward zero.
ktime_to_us(ns) == IF ns >= 0 THEN ns \div NsPerUs ELSE -((-ns) \div NsPerUs)
ktime_us_delta(later, earlier) == ktime_to_us(later - earlier)

\* Returns ok (the timer is active) and the state.
start_dl_timer_always(s, p, boosted) ==
    [ok |-> TRUE,
     s |-> [s EXCEPT !.t[p].timer_active = TRUE,
                     !.t[p].timer_expires = s.t[p].deadline + s.hrskew]]

start_dl_timer_never(s, p, boosted) == [ok |-> FALSE, s |-> s]

start_dl_timer(s, p, boosted) ==
    IF boosted \/ FLAG_SF_BWRECL_DL \in s.t[p].flags
    THEN [ok |-> FALSE, s |-> s]
    ELSE LET now == s.clock + s.hrskew
             delta == now - s.clock
             act == s.t[p].deadline + delta
         IN  IF ktime_us_delta(act, now) < 0
             THEN [ok |-> FALSE, s |-> s]
             ELSE [ok |-> TRUE,
                   s |-> [s EXCEPT !.t[p].timer_active = TRUE,
                                   !.t[p].timer_expires = act]]

---------------------------------------------------------------------------
(* Enqueue and dequeue *)

enqueue_dl_entity(s, p, pi, flags) ==
    IF on_dl_rq(s, p) THEN Bug(s, "enqueue_dl_entity")
    ELSE LET s1 == IF ~s.t[p].dl_new /\ ENQUEUE_REPLENISH \in flags
                   THEN replenish_dl_entity(s, p, pi)
                   ELSE update_dl_entity(s, p, pi)
         IN  __enqueue_dl_entity(s1, p)

dequeue_dl_entity(s, p) == __dequeue_dl_entity(s, p)

enqueue_task_dl_throttled(s, c, p, flags) ==
    LET s1 == enqueue_dl_entity(s, p, p, flags)
    IN  IF ~task_current(s, c, p) /\ s.t[p].nr_cpus_allowed > 1
        THEN enqueue_pushable_dl_task(s1, c, p)
        ELSE s1

enqueue_task_dl(s, c, p, flags) ==
    LET pi_task == s.t[p].pi_top_task
        pi == IF pi_task # NoTask /\ dl_entity_preempt(s, pi_task, p)
              THEN pi_task ELSE p
    IN  IF s.t[p].dl_throttled THEN s
        ELSE Bind(enqueue_dl_entity(s, p, pi, flags), LAMBDA s1 :
                 IF ~task_current(s1, c, p) /\ s1.t[p].nr_cpus_allowed > 1
                 THEN enqueue_pushable_dl_task(s1, c, p)
                 ELSE s1)

__dequeue_task_dl(s, c, p) ==
    dequeue_pushable_dl_task(dequeue_dl_entity(s, p), c, p)

---------------------------------------------------------------------------
(* Budget accounting *)

resched_task(s, c) == [s EXCEPT !.q[c].need_resched = TRUE]

\* Enforces the bandwidth at every accounting point.
dl_runtime_exceeded_always(s, c, p) == [ret |-> TRUE, s |-> s]

\* dl_runtime_exceeded() as it would be if a deadline miss moved the
\* deadline to the clock instead of charging the runtime.
dl_runtime_exceeded_postpone(s, c, p) ==
    LET dmiss == dl_time_before(s.t[p].deadline, s.clock)
        rorun == s.t[p].runtime <= 0
    IN  IF FLAG_SF_HEAD \in s.t[p].flags \/ (~rorun /\ ~dmiss)
        THEN [ret |-> FALSE, s |-> s]
        ELSE IF dmiss
             THEN [ret |-> TRUE, s |-> [s EXCEPT !.t[p].deadline = s.clock]]
             ELSE [ret |-> TRUE, s |-> s]

\* Returns ret (the bandwidth has to be enforced) and the state.
dl_runtime_exceeded(s, c, p) ==
    LET dmiss == dl_time_before(s.t[p].deadline, s.clock)
        rorun == s.t[p].runtime <= 0
    IN  IF FLAG_SF_HEAD \in s.t[p].flags \/ (~rorun /\ ~dmiss)
        THEN [ret |-> FALSE, s |-> s]
        ELSE IF dmiss
             THEN [ret |-> TRUE,
                   s |-> [s EXCEPT !.t[p].runtime =
                              (IF rorun THEN @ ELSE 0)
                                  - S64(s.clock - s.t[p].deadline)]]
             ELSE [ret |-> TRUE, s |-> s]

throttle_curr_dl(s, c, curr) == [s EXCEPT !.t[curr].dl_throttled = TRUE]

update_curr_dl_untimed(s, c) ==
    LET curr == s.q[c].curr
    IN  IF ~dl_task(s, curr) \/ ~on_dl_rq(s, curr) THEN s
        ELSE resched_task(
                 throttle_curr_dl(__dequeue_task_dl(s, c, curr), c, curr), c)

update_curr_dl(s, c) ==
    LET curr == s.q[c].curr
        raw == U64(s.clock - s.t[curr].exec_start)
        delta_exec == IF S64(raw) < 0 THEN 0 ELSE raw
    IN  IF ~dl_task(s, curr) \/ ~on_dl_rq(s, curr) THEN s
        ELSE
        Bind(dl_runtime_exceeded(
                 [s EXCEPT !.t[curr].sum_exec_runtime =
                               IF s.acct THEN @ + delta_exec ELSE @,
                           !.t[curr].exec_start = s.clock,
                           !.t[curr].runtime = @ - delta_exec], c, curr), LAMBDA ex :
            IF ex.ret
            THEN Bind(__dequeue_task_dl(ex.s, c, curr), LAMBDA s2 :
                 Bind(start_dl_timer(s2, curr, s2.t[curr].pi_top_task # NoTask), LAMBDA tm :
                     resched_task(
                         IF tm.ok
                         THEN throttle_curr_dl(tm.s, c, curr)
                         ELSE enqueue_task_dl(tm.s, c, curr, {ENQUEUE_REPLENISH}), c)))
            ELSE ex.s)

dequeue_task_dl(s, c, p) ==
    IF ~s.t[p].dl_throttled
    THEN __dequeue_task_dl(update_curr_dl(s, c), c, p)
    ELSE s

---------------------------------------------------------------------------
(* Scheduler-core services the class calls (kernel/sched.c) *)

set_task_cpu(s, p, cpu) == [s EXCEPT !.t[p].cpu = cpu]

deactivate_task(s, c, p) ==
    [dequeue_task_dl(s, c, p) EXCEPT !.t[p].on_rq = FALSE]

activate_task(s, c, p, flags) ==
    [enqueue_task_dl(s, c, p, flags) EXCEPT !.t[p].on_rq = TRUE]

\* The sched domains for_each_domain() walks for a cpu, from the lowest
\* level up: those the root domain records in rd.sd, or else one
\* wake-affine domain that spans every cpu.
SchedDomains(s, cpu) ==
    IF "sd" \in DOMAIN s.rd THEN s.rd.sd[cpu]
    ELSE <<[wake_affine |-> TRUE, span |-> DOMAIN s.q]>>

---------------------------------------------------------------------------
(* Yield, preemption checks, pick/put *)

\* A null rqtp pointer.
NoInstant == -1

\* The instant wait_interval_dl() hands to hrtimer_nanosleep(), and the
\* entity it leaves; rqtp is NoInstant when no wakeup time is provided.
wait_interval_dl_to_deadline(s, p, rqtp) ==
    [wakeup |-> IF rqtp = NoInstant THEN s.t[p].deadline ELSE U64(rqtp),
     s |-> [s EXCEPT !.t[p].dl_new = TRUE]]

wait_interval_dl(s, p, rqtp) ==
    LET dl_se == s.t[p]
        asked == U64(rqtp)
        ibw == U64(dl_se.runtime * dl_se.dl_period) \div dl_se.dl_runtime
        wakeup ==
            IF rqtp = NoInstant
            THEN U64(dl_se.deadline + dl_se.dl_period - dl_se.dl_deadline)
            ELSE IF /\ dl_time_before(asked, dl_se.deadline)
                    /\ ~dl_entity_overflow(s, p, p, asked)
                 THEN U64(dl_se.deadline - ibw)
                 ELSE asked
    IN  [wakeup |-> wakeup, s |-> [s EXCEPT !.t[p].dl_new = TRUE]]

yield_task_dl_charge_only(s, c) == update_curr_dl(s, c)

yield_task_dl(s, c) ==
    LET p == s.q[c].curr
        s1 == IF s.t[p].runtime > 0
              THEN [s EXCEPT !.t[p].dl_new = TRUE, !.t[p].runtime = 0]
              ELSE s
    IN  update_curr_dl(s1, c)

\* One step of the for_each_cpu() loop of latest_cpu_find().
RECURSIVE LatestScan(_, _, _, _)
LatestScan(s, task, cpu, acc) ==
    IF cpu \notin DOMAIN s.q THEN acc
    ELSE LET q == s.q[cpu]
             cand == /\ cpu \in s.t[task].cpus_allowed
                     /\ \/ q.dl_nr_running = 0
                        \/ dl_time_before(s.t[task].deadline, q.earliest_curr)
             acc1 ==
                IF cand
                THEN IF ~acc.best /\ q.dl_nr_running = 0
                     THEN [acc EXCEPT !.mask = @ \cup {cpu}, !.best = TRUE,
                                      !.found = cpu]
                     ELSE IF ~acc.best /\ dl_time_before(acc.max_dl, q.earliest_curr)
                          THEN [acc EXCEPT !.mask = @ \cup {cpu},
                                           !.max_dl = q.earliest_curr,
                                           !.found = cpu]
                          ELSE [acc EXCEPT !.mask = @ \cup {cpu}]
                ELSE [acc EXCEPT !.mask = @ \ {cpu}]
         IN  LatestScan(s, task, cpu + 1, acc1)

\* Returns found (the best cpu or -1) and later_mask.
latest_cpu_find(s, task) ==
    LatestScan(s, task, 0, [found |-> NoCpu, best |-> FALSE, max_dl |-> 0, mask |-> {}])

\* The calling cpu is taken if any wake-affine level holds it, before
\* the choice of the first step is looked for.
DomainScanCallingFirst(doms, i, this_cpu, best_cpu) ==
    LET affine == {j \in i..Len(doms) : doms[j].wake_affine}
    IN  IF \E j \in affine : this_cpu # NoCpu /\ this_cpu \in doms[j].span
        THEN this_cpu
        ELSE IF \E j \in affine : best_cpu # NoCpu /\ best_cpu \in doms[j].span
             THEN best_cpu
             ELSE NoCpu

RECURSIVE DomainScan(_, _, _, _)
DomainScan(doms, i, this_cpu, best_cpu) ==
    IF i > Len(doms) THEN NoCpu
    ELSE IF doms[i].wake_affine /\ this_cpu # NoCpu /\ this_cpu \in doms[i].span
         THEN this_cpu
         ELSE IF doms[i].wake_affine /\ best_cpu # NoCpu /\ best_cpu \in doms[i].span
              THEN best_cpu
              ELSE DomainScan(doms, i + 1, this_cpu, best_cpu)

\* this_cpu is smp_processor_id(), the cpu that runs the search.
find_later_rq(s, task, this_cpu) ==
    IF s.t[task].nr_cpus_allowed = 1 THEN NoCpu
    ELSE Bind(latest_cpu_find(s, task), LAMBDA r :
         LET cpu == task_cpu(s, task)
             this == IF this_cpu \in r.mask THEN this_cpu ELSE NoCpu
             dom == DomainScan(SchedDomains(s, cpu), 1, this, r.found)
         IN  IF r.found = NoCpu THEN NoCpu
             ELSE IF cpu \in r.mask THEN cpu
             ELSE IF dom # NoCpu THEN dom
             ELSE IF this # NoCpu THEN this
             ELSE IF r.mask # {} THEN CHOOSE x \in r.mask : \A y \in r.mask : x <= y
             ELSE NoCpu)

check_preempt_equal_dl(s, c, p) ==
    LET curr == s.q[c].curr
    IN  IF \/ s.t[curr].nr_cpus_allowed = 1
           \/ latest_cpu_find(s, curr).found = NoCpu
        THEN s
        ELSE IF /\ s.t[p].nr_cpus_allowed # 1
                /\ latest_cpu_find(s, p).found # NoCpu
             THEN s
             ELSE resched_task(s, c)

check_preempt_curr_dl(s, c, p) ==
    LET curr == s.q[c].curr
    IN  IF ~dl_task(s, curr) \/ (dl_task(s, p) /\ dl_entity_preempt(s, p, curr))
        THEN resched_task(s, c)
        ELSE IF S64(s.t[p].deadline - s.t[curr].deadline) = 0 /\ ~s.q[c].need_resched
             THEN check_preempt_equal_dl(s, c, p)
             ELSE s

pick_next_dl_entity(s, c) == s.q[c].rb_leftmost

\* pick_next_task_dl() as it would be if it left the task it picks on
\* the pushable tree.
pick_next_task_dl_pushable(s, c) ==
    IF s.q[c].dl_nr_running = 0
    THEN [p |-> NoTask, s |-> s, post_schedule |-> FALSE]
    ELSE LET p == pick_next_dl_entity(s, c)
         IN  IF p = NoTask
             THEN [p |-> NoTask, s |-> Bug(s, "pick_next_task_dl"),
                   post_schedule |-> FALSE]
             ELSE LET s1 == [s EXCEPT !.t[p].exec_start = s.clock]
                  IN  [p |-> p, s |-> s1,
                       post_schedule |-> has_pushable_dl_tasks(s1, c)]

\* Returns p (the task or NoTask), the state and rq->post_schedule.
pick_next_task_dl(s, c) ==
    IF s.q[c].dl_nr_running = 0
    THEN [p |-> NoTask, s |-> s, post_schedule |-> FALSE]
    ELSE LET p == pick_next_dl_entity(s, c)
         IN  IF p = NoTask
             THEN [p |-> NoTask, s |-> Bug(s, "pick_next_task_dl"),
                   post_schedule |-> FALSE]
             ELSE LET s1 == dequeue_pushable_dl_task(
                                [s EXCEPT !.t[p].exec_start = s.clock], c, p)
                  IN  [p |-> p, s |-> s1,
                       post_schedule |-> has_pushable_dl_tasks(s1, c)]

put_prev_task_dl(s, c, p) ==
    IF s.t[p].dl_throttled THEN s
    ELSE Bind([update_curr_dl(s, c) EXCEPT !.t[p].exec_start = 0], LAMBDA s1 :
             IF on_dl_rq(s1, p) /\ s1.t[p].nr_cpus_allowed > 1
             THEN enqueue_pushable_dl_task(s1, c, p)
             ELSE s1)

task_tick_dl(s, c) == update_curr_dl(s, c)

task_fork_dl_runnable(s, p) == [s EXCEPT !.t[p].dl_new = FALSE]

task_fork_dl(s, p) ==
    [s EXCEPT !.t[p].dl_throttled = TRUE, !.t[p].dl_new = FALSE]

set_curr_task_dl(s, c) ==
    LET p == s.q[c].curr
    IN  dequeue_pushable_dl_task([s EXCEPT !.t[p].exec_start = s.clock], c, p)

---------------------------------------------------------------------------
(* Push *)

\* The checks find_lock_later_rq() makes once double_lock_balance() has
\* released and retaken rq->lock: they skip nothing.
find_lock_later_rq_unchecked(s, task, c, cpu) == FALSE

\* The checks find_lock_later_rq() makes once double_lock_balance() has
\* released and retaken rq->lock: the task has left the runqueue, may not
\* run on the cpu found, runs or is not queued.
find_lock_later_rq_changed(s, task, c, cpu) ==
    \/ task_cpu(s, task) # c
    \/ cpu \notin s.t[task].cpus_allowed
    \/ task_running(s, c, task)
    \/ ~s.t[task].on_rq

RECURSIVE FindLockLoop(_, _, _, _, _)
\* One turn of the loop of find_lock_later_rq() from the return of
\* double_lock_balance() on, both locks held: the runqueue found, or the
\* next turn.
FindLockLocked(s, task, c, this_cpu, cpu, tries) ==
    IF find_lock_later_rq_changed(s, task, c, cpu) THEN NoCpu
    ELSE IF \/ s.q[cpu].dl_nr_running = 0
            \/ dl_time_before(s.t[task].deadline, s.q[cpu].earliest_curr)
         THEN cpu
         ELSE FindLockLoop(s, task, c, this_cpu, tries + 1)

FindLockLoop(s, task, c, this_cpu, tries) ==
    IF tries >= DL_MAX_TRIES THEN NoCpu
    ELSE Bind(find_later_rq(s, task, this_cpu), LAMBDA cpu :
             IF cpu = NoCpu \/ cpu = c THEN NoCpu
             ELSE FindLockLocked(s, task, c, this_cpu, cpu, tries))

\* Returns the cpu whose runqueue is locked, or NoCpu.  Both locks are taken
\* in one step: no other cpu acts between the search and the migration.
find_lock_later_rq(s, task, c, this_cpu) == FindLockLoop(s, task, c, this_cpu, 0)

\* Returns the leftmost pushable task and the state (the assertions).
pick_next_pushable_dl_task(s, c) ==
    IF ~has_pushable_dl_tasks(s, c) THEN [p |-> NoTask, s |-> s]
    ELSE LET p == s.q[c].pushable_leftmost
         IN  IF \/ p = NoTask
                \/ task_cpu(s, p) # c
                \/ task_current(s, c, p)
                \/ s.t[p].nr_cpus_allowed <= 1
                \/ ~s.t[p].on_rq
                \/ ~dl_task(s, p)
             THEN [p |-> NoTask, s |-> Bug(s, "pick_next_pushable_dl_task")]
             ELSE [p |-> p, s |-> s]

RECURSIVE PushRetry(_, _, _, _, _)
\* push_dl_task() as it would be if it left on the pushable tree the task
\* it found no runqueue for.
PushLocked_keep(s, c, this_cpu, next_task, later, fuel) ==
    IF later = NoCpu
    THEN Bind(pick_next_pushable_dl_task(s, c), LAMBDA again :
             IF task_cpu(s, next_task) = c /\ again.p = next_task
             THEN [ret |-> TRUE, s |-> again.s]
             ELSE IF again.p = NoTask \/ fuel = 0
                  THEN [ret |-> TRUE, s |-> again.s]
                  ELSE PushRetry(again.s, c, this_cpu, again.p, fuel - 1))
    ELSE LET s1 == deactivate_task(s, c, next_task)
             s2 == set_task_cpu(s1, next_task, later)
             s3 == activate_task(s2, later, next_task, {})
         IN  [ret |-> TRUE, s |-> resched_task(s3, later)]

\* The body of push_dl_task() from the return of find_lock_later_rq() on:
\* later is the cpu whose runqueue is locked, or NoCpu.
\* push_dl_task() as it would be if it queued the task on the runqueue it
\* found without reassigning the cpu of the task.
PushLocked_nocpu(s, c, this_cpu, next_task, later, fuel) ==
    IF later = NoCpu
    THEN Bind(pick_next_pushable_dl_task(s, c), LAMBDA again :
             IF task_cpu(s, next_task) = c /\ again.p = next_task
             THEN [ret |-> TRUE,
                   s |-> dequeue_pushable_dl_task(again.s, c, next_task)]
             ELSE IF again.p = NoTask \/ fuel = 0
                  THEN [ret |-> TRUE, s |-> again.s]
                  ELSE PushRetry(again.s, c, this_cpu, again.p, fuel - 1))
    ELSE LET s1 == deactivate_task(s, c, next_task)
             s3 == activate_task(s1, later, next_task, {})
         IN  [ret |-> TRUE, s |-> resched_task(s3, later)]

PushLocked(s, c, this_cpu, next_task, later, fuel) ==
    IF later = NoCpu
    THEN Bind(pick_next_pushable_dl_task(s, c), LAMBDA again :
             IF task_cpu(s, next_task) = c /\ again.p = next_task
             THEN [ret |-> TRUE,
                   s |-> dequeue_pushable_dl_task(again.s, c, next_task)]
             ELSE IF again.p = NoTask \/ fuel = 0
                  THEN [ret |-> TRUE, s |-> again.s]
                  ELSE PushRetry(again.s, c, this_cpu, again.p, fuel - 1))
    ELSE LET s1 == deactivate_task(s, c, next_task)
             s2 == set_task_cpu(s1, next_task, later)
             s3 == activate_task(s2, later, next_task, {})
         IN  [ret |-> TRUE, s |-> resched_task(s3, later)]

\* The conditions under which push_dl_task() gives up before it looks
\* for a runqueue: next_task runs, or it preempts a current task that can
\* move away.
PushGivesUp(s, c, next_task) ==
    LET curr == s.q[c].curr
    IN  \/ next_task = curr
        \/ /\ dl_task(s, curr)
           /\ dl_time_before(s.t[next_task].deadline, s.t[curr].deadline)
           /\ s.t[curr].nr_cpus_allowed > 1

\* The body of push_dl_task() from its retry label on.
PushRetry(s, c, this_cpu, next_task, fuel) ==
    IF next_task = s.q[c].curr THEN [ret |-> FALSE, s |-> Bug(s, "push_dl_task")]
    ELSE IF PushGivesUp(s, c, next_task)
    THEN [ret |-> FALSE, s |-> resched_task(s, c)]
    ELSE Bind(find_lock_later_rq(s, next_task, c, this_cpu), LAMBDA later :
             PushLocked(s, c, this_cpu, next_task, later, fuel))

\* Returns ret and the state.
push_dl_task(s, c, this_cpu) ==
    IF ~s.q[c].overloaded THEN [ret |-> FALSE, s |-> s]
    ELSE Bind(pick_next_pushable_dl_task(s, c), LAMBDA first :
             IF first.p = NoTask THEN [ret |-> FALSE, s |-> first.s]
             ELSE PushRetry(first.s, c, this_cpu, first.p, Cardinality(Tasks)))

RECURSIVE PushLoop(_, _, _, _)
PushLoop(s, c, this_cpu, fuel) ==
    Bind(push_dl_task(s, c, this_cpu), LAMBDA r :
        IF r.ret /\ fuel > 0 THEN PushLoop(r.s, c, this_cpu, fuel - 1) ELSE r.s)

push_dl_tasks_none(s, c, this_cpu) == s

push_dl_tasks(s, c, this_cpu) == PushLoop(s, c, this_cpu, 2 * Cardinality(Tasks))

---------------------------------------------------------------------------
(* Pull *)

\* One turn of the for_each_cpu(cpu, dlo_mask) loop of pull_dl_task(); st
\* carries the state, dmin and ret.
RECURSIVE PullScan(_, _, _)
PullScan(st, this_cpu, cpu) ==
    IF cpu \notin DOMAIN st.s.q THEN st
    ELSE
    LET s == st.s
        this == s.q[this_cpu]
        src == s.q[cpu]
        p == pick_next_earliest_dl_task(s, cpu, this_cpu)
    IN  IF \/ cpu \notin s.rd.dlo_mask
           \/ this_cpu = cpu
           \/ /\ this.dl_nr_running # 0
              /\ dl_time_before(this.earliest_curr, src.earliest_next)
           \/ src.dl_nr_running <= 1
        THEN PullScan(st, this_cpu, cpu + 1)
        ELSE IF /\ p # NoTask
                /\ dl_time_before(s.t[p].deadline, st.dmin)
                /\ \/ this.dl_nr_running = 0
                   \/ dl_time_before(s.t[p].deadline, this.earliest_curr)
             THEN IF dl_time_before(s.t[p].deadline, Deadline(s, src.curr))
                  THEN PullScan(st, this_cpu, cpu + 1)
                  ELSE LET s1 == deactivate_task(s, cpu, p)
                           s2 == set_task_cpu(s1, p, this_cpu)
                           s3 == activate_task(s2, this_cpu, p, {})
                       IN  PullScan([s |-> s3, dmin |-> s.t[p].deadline,
                                     ret |-> TRUE], this_cpu, cpu + 1)
             ELSE PullScan(st, this_cpu, cpu + 1)

\* Returns ret and the state.  The two runqueue locks are taken in one
\* step.
pull_dl_task(s, this_cpu) ==
    IF dl_overloaded(s) = 0 THEN [ret |-> FALSE, s |-> s]
    ELSE Bind(PullScan([s |-> s, dmin |-> LONG_MAX, ret |-> FALSE], this_cpu, 0),
              LAMBDA st : [ret |-> st.ret, s |-> st.s])

pre_schedule_dl(s, c, prev) ==
    IF dl_task(s, prev) THEN pull_dl_task(s, c).s ELSE s

post_schedule_dl(s, c) == push_dl_tasks(s, c, c)

\* The condition under which task_woken_dl() pushes.
task_woken_dl_pushes(s, c, p) ==
    LET curr == s.q[c].curr
    IN  /\ ~task_running(s, c, p)
        /\ ~s.q[c].need_resched
        /\ has_pushable_dl_tasks(s, c)
        /\ s.t[p].nr_cpus_allowed > 1
        /\ dl_task(s, curr)
        /\ \/ s.t[curr].nr_cpus_allowed < 2
           \/ dl_entity_preempt(s, curr, p)

task_woken_dl(s, c, p) ==
    IF task_woken_dl_pushes(s, c, p) THEN push_dl_tasks(s, c, c) ELSE s

---------------------------------------------------------------------------
(* Affinity, online/offline *)

set_cpus_allowed_dl_mask_only(s, p, new_mask) ==
    [s EXCEPT !.t[p].cpus_allowed = new_mask,
              !.t[p].nr_cpus_allowed = Cardinality(new_mask)]

set_cpus_allowed_dl(s, p, new_mask) ==
    LET weight == Cardinality(new_mask)
        c == task_cpu(s, p)
        old == s.t[p].nr_cpus_allowed
        s1 == IF ~task_current(s, c, p)
              THEN LET a == IF old > 1 THEN dequeue_pushable_dl_task(s, c, p) ELSE s
                   IN  IF weight > 1 THEN enqueue_pushable_dl_task(a, c, p) ELSE a
              ELSE s
        s2 == IF old <= 1 /\ weight > 1
              THEN [s1 EXCEPT !.q[c].dl_nr_migratory = @ + 1]
              ELSE IF old > 1 /\ weight <= 1
                   THEN IF s1.q[c].dl_nr_migratory = 0
                        THEN Bug(s1, "set_cpus_allowed_dl")
                        ELSE [s1 EXCEPT !.q[c].dl_nr_migratory = @ - 1]
                   ELSE s1
        s3 == IF on_dl_rq(s, p) /\ weight # old
              THEN update_dl_migration(s2, c)
              ELSE s
    IN  [s3 EXCEPT !.t[p].cpus_allowed = new_mask,
                   !.t[p].nr_cpus_allowed = weight]

rq_online_dl(s, c) == IF s.q[c].overloaded THEN dl_set_overload(s, c) ELSE s

rq_offline_dl_keep(s, c) == s

rq_offline_dl(s, c) == IF s.q[c].overloaded THEN dl_clear_overload(s, c) ELSE s

---------------------------------------------------------------------------
(* The replenishment timer callback *)

dl_task_timer_idle(s, p, this_cpu) ==
    [s EXCEPT !.t[p].timer_active = FALSE, !.t[p].timer_expires = 0,
              !.t[p].timer_running = FALSE]

\* this_cpu is the cpu the hrtimer expires on.
dl_task_timer_unthrottle(s, p, this_cpu) ==
    [s EXCEPT !.t[p].timer_active = FALSE, !.t[p].timer_expires = 0,
              !.t[p].timer_running = FALSE, !.t[p].dl_throttled = FALSE]

dl_task_timer(s, p, this_cpu) ==
    LET c == task_cpu(s, p)
        s0 == [s EXCEPT !.t[p].timer_active = FALSE, !.t[p].timer_expires = 0,
                        !.t[p].timer_running = FALSE]
    IN  IF ~__dl_task(s0, p) THEN s0
        ELSE LET s1 == [s0 EXCEPT !.t[p].dl_throttled = FALSE]
             IN  IF s1.t[p].on_rq
                 THEN Bind(check_preempt_curr_dl(
                               enqueue_task_dl(s1, c, p, {ENQUEUE_REPLENISH}), c, p),
                           LAMBDA s3 :
                          IF s3.q[c].overloaded
                          THEN push_dl_task(s3, c, this_cpu).s
                          ELSE s3)
                 ELSE s1

---------------------------------------------------------------------------
(* The scheduler core around the class (kernel/sched.c) *)

SD_BALANCE_WAKE == "SD_BALANCE_WAKE"
SD_BALANCE_FORK == "SD_BALANCE_FORK"

select_task_rq_dl_search(s, c, p, sd_flag, this_cpu) ==
    IF sd_flag # SD_BALANCE_WAKE THEN this_cpu
    ELSE LET cpu == find_later_rq(s, p, this_cpu)
         IN  IF cpu = NoCpu THEN task_cpu(s, p) ELSE cpu

\* rq is the runqueue p last ran on; this_cpu is smp_processor_id().
select_task_rq_dl(s, c, p, sd_flag, this_cpu) ==
    LET curr == s.q[c].curr
    IN  IF sd_flag # SD_BALANCE_WAKE THEN this_cpu
        ELSE IF /\ dl_task(s, curr)
                /\ \/ s.t[curr].nr_cpus_allowed < 2
                   \/ dl_entity_preempt(s, curr, p)
                /\ s.t[p].nr_cpus_allowed > 1
             THEN LET cpu == find_later_rq(s, p, this_cpu)
                  IN  IF cpu = NoCpu THEN task_cpu(s, p) ELSE cpu
             ELSE task_cpu(s, p)

\* schedule() on cpu c up to pre_schedule(): a prev that blocks is taken
\* off its runqueue.
schedule_deactivate(s, c, sleep) ==
    LET prev == s.q[c].curr
    IN  IF sleep /\ prev # NoTask /\ s.t[prev].on_rq
        THEN deactivate_task(s, c, prev) ELSE s

\* schedule() on cpu c up to and including context_switch(): the task
\* picked, whether post_schedule is due, and the state.
schedule_pick(s, c, sleep) ==
    LET prev == s.q[c].curr
        s1 == schedule_deactivate(s, c, sleep)
        s2 == IF prev # NoTask THEN pre_schedule_dl(s1, c, prev) ELSE s1
        s3 == IF prev # NoTask THEN put_prev_task_dl(s2, c, prev) ELSE s2
    IN  Bind(pick_next_task_dl(s3, c), LAMBDA pk :
            [pk EXCEPT !.s = [pk.s EXCEPT !.q[c].curr = pk.p,
                                          !.q[c].need_resched = FALSE]])

\* schedule() on cpu c; sleep tells that prev blocks.
schedule(s, c, sleep) ==
    Bind(schedule_pick(s, c, sleep), LAMBDA pk :
        IF pk.post_schedule THEN post_schedule_dl(pk.s, c) ELSE pk.s)

\* try_to_wake_up(p) run on this_cpu, up to the task_woken hook: the cpu
\* chosen and the state; a cpu outside p's affinity is replaced by the
\* lowest allowed one (select_fallback_rq).
ttwu_activate(s, p, this_cpu) ==
    LET orig == task_cpu(s, p)
    IN  Bind(select_task_rq_dl(s, orig, p, SD_BALANCE_WAKE, this_cpu), LAMBDA sel :
        Bind(IF sel \in s.t[p].cpus_allowed THEN sel
             ELSE CHOOSE x \in s.t[p].cpus_allowed :
                      \A y \in s.t[p].cpus_allowed : x <= y, LAMBDA cpu :
        LET s1 == IF cpu # orig THEN set_task_cpu(s, p, cpu) ELSE s
            s2 == activate_task(s1, cpu, p, {ENQUEUE_WAKEUP})
        IN  [cpu |-> cpu, s |-> check_preempt_curr_dl(s2, cpu, p)]))

try_to_wake_up(s, p, this_cpu) ==
    Bind(ttwu_activate(s, p, this_cpu), LAMBDA r : task_woken_dl(r.s, r.cpu, p))

\* set_rq_online() / set_rq_offline()
set_rq_online(s, c) == rq_online_dl([s EXCEPT !.q[c].online = TRUE], c)
set_rq_offline(s, c) == [rq_offline_dl(s, c) EXCEPT !.q[c].online = FALSE]

---------------------------------------------------------------------------
(* Class changes and parameter changes *)

\* hrtimer_try_to_cancel(): fails when the callback is running.
hrtimer_try_to_cancel(s, p) ==
    IF s.t[p].timer_running THEN s
    ELSE [s EXCEPT !.t[p].timer_active = FALSE, !.t[p].timer_expires = 0]

switched_from_dl_keep_timer(s, c, p, running) ==
    IF s.q[c].dl_nr_running = 0 THEN pull_dl_task(s, c).s ELSE s

switched_from_dl_no_pull(s, c, p, running) ==
    IF s.t[p].timer_active /\ ~dl_policy(s.t[p].policy)
    THEN hrtimer_try_to_cancel(s, p) ELSE s

switched_from_dl(s, c, p, running) ==
    LET s1 == IF s.t[p].timer_active /\ ~dl_policy(s.t[p].policy)
              THEN hrtimer_try_to_cancel(s, p) ELSE s
    IN  IF s1.q[c].dl_nr_running = 0 THEN pull_dl_task(s1, c).s ELSE s1

switched_to_dl(s, c, p, running) ==
    IF s.t[p].dl_throttled THEN s
    ELSE IF ~running
         THEN Bind(IF s.q[c].overloaded
                   THEN push_dl_task(s, c, c)
                   ELSE [ret |-> FALSE, s |-> s], LAMBDA pushed :
                  IF s.q[c].overloaded /\ pushed.ret /\ c # task_cpu(pushed.s, p)
                  THEN pushed.s
                  ELSE check_preempt_curr_dl(pushed.s, c, p))
         ELSE s

prio_changed_dl(s, c, p, running) ==
    IF running
    THEN Bind(IF ~s.q[c].overloaded THEN pull_dl_task(s, c).s ELSE s, LAMBDA s1 :
             IF /\ dl_time_before(s1.q[c].earliest_curr, s1.t[p].deadline)
                /\ s1.q[c].curr = p
             THEN resched_task(s1, c)
             ELSE s1)
    ELSE switched_to_dl(s, c, p, running)

\* An active timer is cancelled unless its callback is running; the
\* initialisation of an inactive timer changes nothing that is modelled.
init_dl_task_timer(s, p) ==
    IF s.t[p].timer_active THEN hrtimer_try_to_cancel(s, p) ELSE s

\* __setparam_dl(): new parameters for p; the entity starts a new instance,
\* not throttled.
setparam_dl(s, p, param) ==
    [init_dl_task_timer(s, p) EXCEPT
              !.t[p].dl_runtime = param.dl_runtime,
              !.t[p].dl_deadline = param.dl_deadline,
              !.t[p].dl_period = param.dl_period,
              !.t[p].flags = param.flags,
              !.t[p].dl_bw = to_ratio(param.dl_period, param.dl_runtime),
              !.t[p].dl_throttled = FALSE,
              !.t[p].dl_new = TRUE]

\* sched_setscheduler_ex() of a deadline task to new deadline parameters.
sched_setscheduler_ex(s, p, param) ==
    LET c == task_cpu(s, p)
        on_rq == s.t[p].on_rq
        running == task_current(s, c, p)
        s1 == IF on_rq THEN deactivate_task(s, c, p) ELSE s
        s2 == IF running THEN put_prev_task_dl(s1, c, p) ELSE s1
        s3 == setparam_dl(s2, p, param)
        s4 == IF running THEN set_curr_task_dl(s3, c) ELSE s3
    IN  IF on_rq
        THEN prio_changed_dl(activate_task(s4, c, p, {}), c, p, running)
        ELSE s4

\* sched_setscheduler() of a deadline task that is on its runqueue and not
\* running to the fair class: the task leaves the deadline runqueue, its
\* bandwidth is given back, and check_class_changed() calls switched_from.
sched_setscheduler(s, p, policy) ==
    LET c == task_cpu(s, p)
        s1 == deactivate_task(s, c, p)
        s2 == [s1 EXCEPT !.t[p].policy = policy, !.t[p].on_rq = TRUE,
                         !.rd.total_bw = @ - s.t[p].dl_bw]
    IN  switched_from_dl(s2, c, p, FALSE)

\* do_fork() of child by the task running on cpu c: the child is a copy of
\* its parent, task_fork_dl() makes it throttled, wake_up_new_task() puts it
\* on the parent's runqueue.
do_fork(s, c, child) ==
    LET parent == s.q[c].curr
        s1 == [s EXCEPT !.t[child] =
                  [s.t[parent] EXCEPT !.alive = TRUE, !.on_rq = FALSE,
                                      !.timer_active = FALSE, !.timer_expires = 0,
                                      !.exec_start = 0, !.sum_exec_runtime = 0,
                                      !.cpu = select_task_rq_dl(s, c, parent,
                                                  SD_BALANCE_FORK, c)]]
        s2 == task_fork_dl(s1, child)
        s3 == activate_task(s2, c, child, {})
        s4 == check_preempt_curr_dl(s3, c, child)
    IN  task_woken_dl(s4, c, child)

---------------------------------------------------------------------------
(* State *)

State ==
    [t |-> tasks, q |-> rqs, rd |-> rd, clock |-> clock, hrskew |-> hrskew,
     bug |-> bug, acct |-> pc.acct]

Commit(s) ==
    /\ tasks' = s.t
    /\ rqs' = s.q
    /\ rd' = s.rd
    /\ bug' = s.bug
    /\ UNCHANGED <<clock, hrskew, pc>>

\* The state a hook leaves, with the bookkeeping of the scenario.
CommitWith(s, scenario) ==
    /\ tasks' = s.t
    /\ rqs' = s.q
    /\ rd' = s.rd
    /\ bug' = s.bug
    /\ pc' = scenario
    /\ UNCHANGED <<clock, hrskew>>

\* A sleeping deadline task whose parameters have just been installed.
InitTask(alive, param, mask) ==
    [alive |-> alive,
     cpu |-> CHOOSE x \in mask : \A y \in mask : x <= y,
     on_rq |-> FALSE, runtime |-> 0, deadline |-> 0,
     dl_runtime |-> param.dl_runtime, dl_deadline |-> param.dl_deadline,
     dl_period |-> param.dl_period, flags |-> param.flags,
     dl_new |-> TRUE, dl_throttled |-> FALSE,
     cpus_allowed |-> mask, nr_cpus_allowed |-> Cardinality(mask),
     exec_start |-> 0, sum_exec_runtime |-> 0,
     timer_active |-> FALSE, timer_expires |-> 0, timer_running |-> FALSE,
     pi_top_task |-> NoTask, policy |-> SCHED_DEADLINE,
     dl_bw |-> to_ratio(param.dl_period, param.dl_runtime)]

InitRq ==
    [tree |-> <<>>, rb_leftmost |-> NoTask, dl_nr_running |-> 0,
     dl_nr_total |-> 0, dl_nr_migratory |-> 0, overloaded |-> FALSE,
     earliest_curr |-> 0, earliest_next |-> 0,
     pushable |-> <<>>, pushable_leftmost |-> NoTask,
     curr |-> NoTask, online |-> TRUE, need_resched |-> FALSE]

SchedParam(runtime, deadline, period, flags) ==
    [dl_runtime |-> runtime, dl_deadline |-> deadline, dl_period |-> period,
     flags |-> flags]

\* The parameters of the tasks of the general specification.
TaskParams ==
    [p \in Tasks |->
        CASE p = 1 -> SchedParam(1, 1, 1, {})
          [] p = 2 -> SchedParam(1, 2, 2, {})
          [] OTHER -> SchedParam(2, 3, 3, {FLAG_SF_HEAD})]

\* The parameters of the tasks of the bandwidth specification.
TaskParamsCbs ==
    [p \in Tasks |->
        CASE p = 1 -> SchedParam(1, 2, 2, {})
          [] p = 2 -> SchedParam(1, 3, 3, {})
          [] OTHER -> SchedParam(2, 3, 3, {})]

InitSystem(horizon, params, acct) ==
    /\ rqs = [c \in CPUs |-> InitRq]
    /\ rd = [dlo_mask |-> {}, dlo_count |-> 0]
    /\ clock = 0
    /\ hrskew = ClockSkew
    /\ bug = {}
    /\ pc = [acct |-> acct, horizon |-> horizon, params |-> params]

\* Tasks 1 and 2 sleep with their parameters installed; task 3 is not yet
\* forked.
Init ==
    /\ tasks = [p \in Tasks |-> InitTask(p # 3, TaskParams[IF p = 3 THEN 1 ELSE p], CPUs)]
    /\ InitSystem(MaxClock, TaskParams, FALSE)

\* Two tasks, a longer horizon, execution time accounted.
InitCbs ==
    /\ tasks = [p \in Tasks |-> InitTask(p # 3, TaskParamsCbs[p], CPUs)]
    /\ InitSystem(MaxClockCbs, TaskParamsCbs, TRUE)

---------------------------------------------------------------------------
(* Actions: one hook, under its runqueue lock, per step *)

AdvanceClock ==
    /\ clock < pc.horizon
    /\ clock' = clock + 1
    /\ UNCHANGED <<tasks, rqs, rd, hrskew, bug, pc>>

Tick(c) ==
    /\ rqs[c].curr # NoTask
    /\ Commit(task_tick_dl(State, c))

Schedule(c, sleep) ==
    /\ sleep => rqs[c].curr # NoTask /\ tasks[rqs[c].curr].on_rq
    /\ Commit(schedule(State, c, sleep))

Wakeup(p, this_cpu) ==
    /\ tasks[p].alive
    /\ ~tasks[p].on_rq
    /\ Commit(try_to_wake_up(State, p, this_cpu))

Yield(c) ==
    /\ rqs[c].curr # NoTask
    /\ Commit(yield_task_dl(State, c))

TimerFire(p, this_cpu) ==
    /\ tasks[p].timer_active
    /\ tasks[p].timer_expires <= clock + hrskew
    /\ Commit(dl_task_timer(State, p, this_cpu))

Fork(c, child) ==
    /\ rqs[c].curr # NoTask
    /\ ~tasks[child].alive
    /\ Commit(do_fork(State, c, child))

\* The parent installs the parameters of a forked child.
SetScheduler(p) ==
    /\ tasks[p].alive
    /\ tasks[p].dl_throttled
    /\ ~tasks[p].timer_active
    /\ Commit(sched_setscheduler_ex(State, p, pc.params[p]))

SetCpusAllowed(p, mask) ==
    /\ tasks[p].alive
    /\ mask # {}
    /\ mask # tasks[p].cpus_allowed
    /\ tasks[p].cpu \in mask
    /\ Commit(set_cpus_allowed_dl(State, p, mask))

RqOnline(c) ==
    /\ ~rqs[c].online
    /\ Commit(set_rq_online(State, c))

RqOffline(c) ==
    /\ rqs[c].online
    /\ Commit(set_rq_offline(State, c))

Next ==
    \/ AdvanceClock
    \/ \E c \in CPUs : Tick(c)
    \/ \E c \in CPUs, sleep \in BOOLEAN : Schedule(c, sleep)
    \/ \E p \in Tasks, c \in CPUs : Wakeup(p, c)
    \/ \E c \in CPUs : Yield(c)
    \/ \E p \in Tasks, c \in CPUs : TimerFire(p, c)
    \/ \E c \in CPUs, p \in Tasks : Fork(c, p)
    \/ \E p \in Tasks : SetScheduler(p)

Spec == Init /\ [][Next]_vars

NextHooks ==
    \/ AdvanceClock
    \/ \E c \in CPUs : Tick(c)
    \/ \E c \in CPUs, sleep \in BOOLEAN : Schedule(c, sleep)
    \/ \E p \in Tasks, c \in CPUs : Wakeup(p, c)
    \/ \E c \in CPUs : Yield(c)
    \/ \E p \in Tasks, c \in CPUs : TimerFire(p, c)

SpecCbs == InitCbs /\ [][NextHooks]_vars

\* Three tasks with their parameters installed, two of them (2 and 3) HEAD.
TaskParamsHead ==
    [p \in Tasks |->
        CASE p = 1 -> SchedParam(1, 1, 1, {})
          [] p = 2 -> SchedParam(1, 2, 2, {FLAG_SF_HEAD})
          [] OTHER -> SchedParam(2, 3, 3, {FLAG_SF_HEAD})]

InitHead ==
    /\ tasks = [p \in Tasks |-> InitTask(TRUE, TaskParamsHead[p], CPUs)]
    /\ InitSystem(MaxClock, TaskParamsHead, FALSE)

SpecHead == InitHead /\ [][NextHooks]_vars

\* Tasks 1 and 2 are woken once and never block; the current task of a CPU
\* goes at most TickGap without a tick or a reschedule.  pc.hist keeps
\* sum_exec_runtime of each task at the end of every instant.
TaskParamsHog ==
    [p \in Tasks |->
        CASE p = 1 -> SchedParam(1, 4, 4, {})
          [] p = 2 -> SchedParam(1, 3, 3, {})
          [] OTHER -> SchedParam(2, 3, 3, {})]

HogAlive == {1, 2}

InitHog ==
    /\ tasks = [p \in Tasks |-> InitTask(p \in HogAlive, TaskParamsHog[p], CPUs)]
    /\ rqs = [c \in CPUs |-> InitRq]
    /\ rd = [dlo_mask |-> {}, dlo_count |-> 0]
    /\ clock = 0
    /\ hrskew = ClockSkew
    /\ bug = {}
    /\ pc = [acct |-> TRUE, horizon |-> MaxClockHog, params |-> TaskParamsHog,
             hist |-> <<>>, woken |-> {}]

Uncharged(c) ==
    IF rqs[c].curr # NoTask
    THEN clock - tasks[rqs[c].curr].exec_start
    ELSE 0

AdvanceClockTicked ==
    /\ clock < pc.horizon
    /\ \A c \in CPUs : Uncharged(c) < TickGap
    /\ clock' = clock + 1
    /\ pc' = [pc EXCEPT !.hist = Append(@, [p \in Tasks |-> tasks[p].sum_exec_runtime])]
    /\ UNCHANGED <<tasks, rqs, rd, hrskew, bug>>

FirstWakeup(p, this_cpu) ==
    /\ tasks[p].alive
    /\ p \notin pc.woken
    /\ CommitWith(try_to_wake_up(State, p, this_cpu),
                  [pc EXCEPT !.woken = @ \cup {p}])

NextHog ==
    \/ AdvanceClockTicked
    \/ \E c \in CPUs : Tick(c)
    \/ \E c \in CPUs : Schedule(c, FALSE)
    \/ \E p \in Tasks, c \in CPUs : FirstWakeup(p, c)
    \/ \E p \in Tasks, c \in CPUs : TimerFire(p, c)

SpecHog == InitHog /\ [][NextHog]_vars

\* Three tasks on two CPUs, woken and put to sleep at one instant, whose
\* affinity changes and whose CPUs go offline and come back.
InitSmp ==
    /\ tasks = [p \in Tasks |-> InitTask(TRUE, TaskParamsCbs[p], CPUs)]
    /\ InitSystem(MaxClock, TaskParamsCbs, FALSE)

NextSmp ==
    \/ \E c \in CPUs, sleep \in BOOLEAN : Schedule(c, sleep)
    \/ \E p \in Tasks, c \in CPUs : Wakeup(p, c)
    \/ \E p \in Tasks, mask \in SUBSET CPUs : SetCpusAllowed(p, mask)
    \/ \E c \in CPUs : RqOnline(c)
    \/ \E c \in CPUs : RqOffline(c)

SpecSmp == InitSmp /\ [][NextSmp]_vars

---------------------------------------------------------------------------
(* The overload mask and counter, store by store *)

\* pc.op[c] is where CPU c is in dl_set_overload() or dl_clear_overload(),
\* called by update_dl_migration() under its own runqueue lock; pc.rdr is
\* where a CPU is in the lockless test at the head of pull_dl_task().  No
\* read barrier orders the reader's two loads, so the load of dlo_mask may
\* be satisfied before the load of dlo_count (pc.early).  pc.snap is the
\* set of CPUs the counter has accounted for ever since it was read.
InitOvl ==
    /\ tasks = [p \in Tasks |-> InitTask(TRUE, TaskParamsCbs[p], CPUs)]
    /\ rqs = [c \in CPUs |-> InitRq]
    /\ rd = [dlo_mask |-> {}, dlo_count |-> 0]
    /\ clock = 0
    /\ hrskew = ClockSkew
    /\ bug = {}
    /\ pc = [acct |-> FALSE, horizon |-> 0, params |-> TaskParamsCbs,
             op |-> [c \in CPUs |-> "idle"], rdr |-> "idle", early |-> {},
             seen_count |-> 0, seen_mask |-> {}, snap |-> {}]

Accounted == {c \in CPUs : pc.op[c] = "idle" /\ rqs[c].overloaded}

\* dl_set_overload(): the mask bit.
SetOverloadMask(c) ==
    /\ pc.op[c] = "idle"
    /\ ~rqs[c].overloaded
    /\ rqs[c].online
    /\ rd' = dl_set_overload_mask(State, c).rd
    /\ pc' = [pc EXCEPT !.op[c] = "set"]
    /\ UNCHANGED <<tasks, rqs, clock, hrskew, bug>>

\* dl_set_overload(): the counter, after the write barrier; then
\* update_dl_migration() sets the flag.
SetOverloadCount(c) ==
    /\ pc.op[c] = "set"
    /\ rd' = dl_set_overload_count(State, c).rd
    /\ rqs' = [rqs EXCEPT ![c].overloaded = TRUE]
    /\ pc' = [pc EXCEPT !.op[c] = "idle"]
    /\ UNCHANGED <<tasks, clock, hrskew, bug>>

\* dl_clear_overload(): the counter.
ClearOverloadCount(c) ==
    /\ pc.op[c] = "idle"
    /\ rqs[c].overloaded
    /\ rqs[c].online
    /\ rd' = dl_clear_overload_count(State, c).rd
    /\ pc' = [pc EXCEPT !.op[c] = "clear", !.snap = @ \ {c}]
    /\ UNCHANGED <<tasks, rqs, clock, hrskew, bug>>

\* dl_clear_overload(): the mask bit; then update_dl_migration() clears the
\* flag.
ClearOverloadMask(c) ==
    /\ pc.op[c] = "clear"
    /\ rd' = dl_clear_overload_mask(State, c).rd
    /\ rqs' = [rqs EXCEPT ![c].overloaded = FALSE]
    /\ pc' = [pc EXCEPT !.op[c] = "idle"]
    /\ UNCHANGED <<tasks, clock, hrskew, bug>>

\* The load of dlo_mask, satisfied ahead of the load of dlo_count.
ReaderLoadsMaskEarly ==
    /\ pc.rdr = "idle"
    /\ pc.early = {}
    /\ pc' = [pc EXCEPT !.early = {rd.dlo_mask}]
    /\ UNCHANGED <<tasks, rqs, rd, clock, hrskew, bug>>

\* pull_dl_task(): dl_overloaded().
ReaderReadsCount ==
    /\ pc.rdr = "idle"
    /\ pc' = [pc EXCEPT !.rdr = "count",
                        !.seen_count = dl_overloaded(State),
                        !.snap = Accounted]
    /\ UNCHANGED <<tasks, rqs, rd, clock, hrskew, bug>>

\* pull_dl_task(): for_each_cpu(cpu, dlo_mask), on the mask as loaded.
ReaderIteratesMask ==
    /\ pc.rdr = "count"
    /\ \E mask \in {rd.dlo_mask} \cup pc.early :
           pc' = [pc EXCEPT !.rdr = "done", !.seen_mask = mask]
    /\ UNCHANGED <<tasks, rqs, rd, clock, hrskew, bug>>

ReaderReturns ==
    /\ pc.rdr = "done"
    /\ pc' = [pc EXCEPT !.rdr = "idle", !.early = {}, !.seen_count = 0,
                        !.seen_mask = {}, !.snap = {}]
    /\ UNCHANGED <<tasks, rqs, rd, clock, hrskew, bug>>

NextOvl ==
    \/ \E c \in CPUs : SetOverloadMask(c)
    \/ \E c \in CPUs : SetOverloadCount(c)
    \/ \E c \in CPUs : ClearOverloadCount(c)
    \/ \E c \in CPUs : ClearOverloadMask(c)
    \/ ReaderLoadsMaskEarly
    \/ ReaderReadsCount
    \/ ReaderIteratesMask
    \/ ReaderReturns

SpecOvl == InitOvl /\ [][NextOvl]_vars

---------------------------------------------------------------------------
(* Scenario S1: isolation under overrun, times in ms, everything on CPU 0 *)

TaskA == 1
TaskB == 2

TaskParamsS1 ==
    [p \in Tasks |->
        CASE p = TaskA -> SchedParam(4, 10, 10, {})
          [] OTHER -> SchedParam(3, 15, 15, {})]

\* Task A never blocks.  Task B is released every period, needs pc.need of
\* CPU per instance (its whole budget, or less) and sleeps until the next
\* release once it has had it.  pc.work is the CPU time the pending
\* instance of B has had, pc.release the time it was or will be released.
InitS1 ==
    /\ tasks = [p \in Tasks |-> InitTask(p # 3, TaskParamsS1[p], {0})]
    /\ rqs = [c \in CPUs |-> InitRq]
    /\ rd = [dlo_mask |-> {}, dlo_count |-> 0]
    /\ clock = 0
    /\ hrskew = ClockSkew
    /\ bug = {}
    /\ \E need \in {TaskParamsS1[TaskB].dl_runtime - 1,
                     TaskParamsS1[TaskB].dl_runtime} :
           pc = [acct |-> TRUE, horizon |-> MaxClockS1, params |-> TaskParamsS1,
                 need |-> need, work |-> 0, release |-> 0,
                 working |-> FALSE, started |-> FALSE]

TimerDue(p) ==
    tasks[p].timer_active /\ tasks[p].timer_expires <= clock + hrskew

\* A ms passes once everything due at this instant has been done: the tick,
\* the pending reschedule, the expired timers, the release of B, and B
\* going to sleep when its instance is complete.
AdvanceClockS1 ==
    /\ clock < pc.horizon
    /\ pc.started
    /\ ~(clock = pc.release /\ ~pc.working)
    /\ ~(pc.working /\ pc.work = pc.need /\ rqs[0].curr = TaskB)
    /\ \A p \in Tasks : ~TimerDue(p)
    /\ ~rqs[0].need_resched
    /\ Uncharged(0) = 0
    /\ clock' = clock + 1
    /\ pc' = [pc EXCEPT !.work =
                 IF rqs[0].curr = TaskB /\ pc.working THEN @ + 1 ELSE @]
    /\ UNCHANGED <<tasks, rqs, rd, hrskew, bug>>

StartA ==
    /\ ~pc.started
    /\ CommitWith(try_to_wake_up(State, TaskA, 0), [pc EXCEPT !.started = TRUE])

ReleaseB ==
    /\ clock = pc.release
    /\ ~pc.working
    /\ ~tasks[TaskB].on_rq
    /\ CommitWith(try_to_wake_up(State, TaskB, 0),
                  [pc EXCEPT !.working = TRUE, !.work = 0])

CompleteB ==
    /\ pc.working
    /\ pc.work = pc.need
    /\ rqs[0].curr = TaskB
    /\ tasks[TaskB].on_rq
    /\ CommitWith(schedule(State, 0, TRUE),
                  [pc EXCEPT !.working = FALSE,
                             !.release = @ + tasks[TaskB].dl_period])

NextS1 ==
    \/ AdvanceClockS1
    \/ StartA
    \/ ReleaseB
    \/ CompleteB
    \/ Tick(0)
    \/ Schedule(0, FALSE)
    \/ \E p \in Tasks : TimerFire(p, 0)

SpecS1 == InitS1 /\ [][NextS1]_vars

---------------------------------------------------------------------------
(* Periodic tasks that block only in wait_interval_dl(), on CPU 0 *)

MaxClockWait == 5
MaxAhead == 2

TaskParamsWait ==
    [p \in Tasks |->
        CASE p = 1 -> SchedParam(2, 5, 5, {})
          [] OTHER -> SchedParam(1, 2, 3, {})]

\* pc.sleep is the instant a sleeping task handed to hrtimer_nanosleep(),
\* pc.wake the time of its last wakeup, pc.gap the time between its last
\* two wakeups (until it sleeps again), pc.asked whether its last sleep
\* named a wakeup time.
InitWait ==
    /\ tasks = [p \in Tasks |-> InitTask(p # 3, TaskParamsWait[p], {0})]
    /\ rqs = [c \in CPUs |-> InitRq]
    /\ rd = [dlo_mask |-> {}, dlo_count |-> 0]
    /\ clock = 0
    /\ hrskew = ClockSkew
    /\ bug = {}
    /\ pc = [acct |-> FALSE, horizon |-> MaxClockWait, params |-> TaskParamsWait,
             sleep |-> [p \in Tasks |-> NoInstant],
             wake |-> [p \in Tasks |-> NoInstant],
             gap |-> [p \in Tasks |-> NoInstant],
             asked |-> [p \in Tasks |-> FALSE]]

\* try_to_wake_up() of p at the current time, recorded.
WakeAt(p) ==
    CommitWith(try_to_wake_up(State, p, 0),
               [pc EXCEPT !.sleep[p] = NoInstant,
                          !.wake[p] = clock,
                          !.gap[p] = IF pc.wake[p] = NoInstant THEN NoInstant
                                     ELSE clock - pc.wake[p]])

FirstActivation(p) ==
    /\ tasks[p].alive
    /\ ~tasks[p].on_rq
    /\ pc.wake[p] = NoInstant
    /\ clock = 0
    /\ WakeAt(p)

\* sched_wait_interval() of the running task: wait_interval_dl(), then
\* hrtimer_nanosleep() in absolute mode, which blocks the task unless the
\* instant has already passed on the hrtimer base.
WaitInterval(c, rqtp) ==
    LET p == rqs[c].curr
    IN  /\ p # NoTask
        /\ tasks[p].on_rq
        /\ LET w == wait_interval_dl(State, p, rqtp)
           IN  IF S64(w.wakeup) <= clock + hrskew
               THEN Commit(w.s)
               ELSE CommitWith(schedule(w.s, c, TRUE),
                               [pc EXCEPT !.sleep[p] = w.wakeup,
                                          !.gap[p] = NoInstant,
                                          !.asked[p] = rqtp # NoInstant])

\* hrtimer_wakeup() of the sleeper.
WakeFromWait(p) ==
    /\ pc.sleep[p] # NoInstant
    /\ ~tasks[p].on_rq
    /\ S64(pc.sleep[p]) <= clock + hrskew
    /\ WakeAt(p)

\* Time passes once the running task has been charged up to now.
AdvanceClockWait ==
    /\ Uncharged(0) = 0
    /\ AdvanceClock

NextWait ==
    \/ AdvanceClockWait
    \/ \E p \in Tasks : FirstActivation(p)
    \/ \E rqtp \in {NoInstant} \cup (clock + 1 .. clock + MaxAhead) :
           WaitInterval(0, rqtp)
    \/ \E p \in Tasks : WakeFromWait(p)
    \/ Tick(0)
    \/ Schedule(0, FALSE)
    \/ \E p \in Tasks : TimerFire(p, 0)

SpecWait == InitWait /\ [][NextWait]_vars

---------------------------------------------------------------------------
(* Tasks that leave the deadline class; the timer expiry and its callback
   are two steps, with the runqueue lock taken by the callback *)

MaxClockClass == 3

RECURSIVE SumBw(_, _)
SumBw(t, among) ==
    IF among = {} THEN 0
    ELSE LET p == CHOOSE x \in among : TRUE
         IN  t[p].dl_bw + SumBw(t, among \ {p})

\* pc.raced holds the tasks whose timer callback ran after they had left
\* the class, pc.rearmed those whose callback returned with the timer armed.
InitClass ==
    /\ tasks = [p \in Tasks |-> InitTask(p # 3, TaskParamsCbs[p], CPUs)]
    /\ rqs = [c \in CPUs |-> InitRq]
    /\ rd = [dlo_mask |-> {}, dlo_count |-> 0,
             total_bw |-> SumBw(tasks, {p \in Tasks : tasks[p].alive})]
    /\ clock = 0
    /\ hrskew = ClockSkew
    /\ bug = {}
    /\ pc = [acct |-> FALSE, horizon |-> MaxClockClass, params |-> TaskParamsCbs,
             raced |-> {}, rearmed |-> {}]

\* The hrtimer interrupt takes the expired timer off its queue and enters
\* dl_task_timer(), which waits for the runqueue lock.
TimerExpire(p) ==
    /\ tasks[p].timer_active
    /\ ~tasks[p].timer_running
    /\ tasks[p].timer_expires <= clock + hrskew
    /\ tasks' = [tasks EXCEPT ![p].timer_running = TRUE]
    /\ UNCHANGED <<rqs, rd, clock, hrskew, bug, pc>>

TimerCallback(p, this_cpu) ==
    /\ tasks[p].timer_running
    /\ CommitWith(dl_task_timer(State, p, this_cpu),
                  [pc EXCEPT !.raced = IF __dl_task(State, p) THEN @
                                       ELSE @ \cup {p},
                             !.rearmed =
                                 IF dl_task_timer(State, p, this_cpu).t[p].timer_active
                                 THEN @ \cup {p} ELSE @])

SwitchedFrom(p) ==
    /\ tasks[p].alive
    /\ dl_policy(tasks[p].policy)
    /\ tasks[p].on_rq
    /\ \A c \in CPUs : rqs[c].curr # p
    /\ Commit(sched_setscheduler(State, p, SCHED_NORMAL))

NextClass ==
    \/ AdvanceClock
    \/ \E c \in CPUs : Tick(c)
    \/ \E c \in CPUs, sleep \in BOOLEAN : Schedule(c, sleep)
    \/ \E p \in Tasks, c \in CPUs : Wakeup(p, c)
    \/ \E p \in Tasks : TimerExpire(p)
    \/ \E p \in Tasks, c \in CPUs : TimerCallback(p, c)
    \/ \E p \in Tasks : SwitchedFrom(p)

SpecClass == InitClass /\ [][NextClass]_vars

---------------------------------------------------------------------------
(* The timer subsystem fires every armed timer: time passes up to the
   horizon, a due timer expires and an expired timer's callback gets the
   runqueue lock *)

MaxClockLive == 3

\* pc.cleared holds the runnable tasks a timer callback has un-throttled.
InitLive ==
    /\ tasks = [p \in Tasks |-> InitTask(p # 3, TaskParamsCbs[p], CPUs)]
    /\ rqs = [c \in CPUs |-> InitRq]
    /\ rd = [dlo_mask |-> {}, dlo_count |-> 0,
             total_bw |-> SumBw(tasks, {p \in Tasks : tasks[p].alive})]
    /\ clock = 0
    /\ hrskew = ClockSkew
    /\ bug = {}
    /\ pc = [acct |-> FALSE, horizon |-> MaxClockLive, params |-> TaskParamsCbs,
             cleared |-> {}]

TimerCallbackLive(p, this_cpu) ==
    /\ tasks[p].timer_running
    /\ CommitWith(dl_task_timer(State, p, this_cpu),
                  [pc EXCEPT !.cleared =
                       IF /\ __dl_task(State, p)
                          /\ tasks[p].on_rq
                          /\ ~dl_task_timer(State, p, this_cpu).t[p].dl_throttled
                       THEN @ \cup {p} ELSE @])

NextLive ==
    \/ AdvanceClock
    \/ \E c \in CPUs : Tick(c)
    \/ \E c \in CPUs, sleep \in BOOLEAN : Schedule(c, sleep)
    \/ \E p \in Tasks, c \in CPUs : Wakeup(p, c)
    \/ \E p \in Tasks : TimerExpire(p)
    \/ \E p \in Tasks, c \in CPUs : TimerCallbackLive(p, c)
    \/ \E p \in Tasks : SwitchedFrom(p)

\* hrtimer: the clock goes on, a timer that is due is taken off its queue,
\* and its callback gets the runqueue lock and runs.  The callback is
\* enabled exactly while timer_running is set, so its weak fairness,
\* WF_vars(\E c \in CPUs : TimerCallbackLive(p, c)), is written out with
\* that predicate.
FairLive ==
    /\ WF_vars(AdvanceClock)
    /\ \A p \in Tasks :
           /\ WF_vars(TimerExpire(p))
           /\ \/ []<>(~tasks[p].timer_running)
              \/ []<><<\E c \in CPUs : TimerCallbackLive(p, c)>>_vars

SpecLive == InitLive /\ [][NextLive]_vars /\ FairLive

---------------------------------------------------------------------------
(* Tasks that are exempt from throttling: task 1 carries HEAD, carries
   BWRECL_DL, or holds a lock task 3 waits for; task 2 is an ordinary task *)

MaxClockRecl == 2

Exemptions == {"HEAD", "BWRECL_DL", "boosted"}

TaskParamsRecl(how) ==
    [p \in Tasks |->
        CASE p = 1 -> SchedParam(1, 3, 3,
                         IF how = "HEAD" THEN {FLAG_SF_HEAD}
                         ELSE IF how = "BWRECL_DL" THEN {FLAG_SF_BWRECL_DL}
                         ELSE {})
          [] p = 2 -> SchedParam(1, 2, 2, {})
          [] OTHER -> SchedParam(1, 2, 2, {})]

\* The waiter was activated at time 0 and blocked at once; it stays blocked.
InitRecl ==
    \E how \in Exemptions :
        /\ tasks = [p \in Tasks |->
               LET t == InitTask(p # 3 \/ how = "boosted", TaskParamsRecl(how)[p], CPUs)
               IN  IF how # "boosted" THEN t
                   ELSE IF p = 1 THEN [t EXCEPT !.pi_top_task = 3]
                   ELSE IF p = 3
                        THEN [t EXCEPT !.dl_new = FALSE, !.runtime = t.dl_runtime,
                                       !.deadline = t.dl_deadline]
                        ELSE t]
        /\ InitSystem(MaxClockRecl, TaskParamsRecl(how), FALSE)

NextRecl ==
    \/ AdvanceClock
    \/ \E c \in CPUs : Tick(c)
    \/ \E c \in CPUs, sleep \in BOOLEAN : Schedule(c, sleep)
    \/ \E p \in {1, 2}, c \in CPUs : Wakeup(p, c)
    \/ \E c \in CPUs : Yield(c)
    \/ \E p \in Tasks, c \in CPUs : TimerFire(p, c)

SpecRecl == InitRecl /\ [][NextRecl]_vars

---------------------------------------------------------------------------
(* The hooks that pull: three tasks that may run on either cpu, of which
   any may leave the deadline class while it is queued and not running,
   and any may be given its parameters anew while it is running *)

MaxClockPull == 1

TaskParamsPull ==
    [p \in Tasks |->
        CASE p = 1 -> SchedParam(1, 1, 1, {})
          [] p = 2 -> SchedParam(1, 3, 3, {})
          [] OTHER -> SchedParam(2, 3, 3, {})]

\* The queued tasks of other runqueues that state s has on runqueue c.
MovedOnto(s, c) ==
    {q \in Tasks : tasks[q].on_rq /\ tasks[q].cpu # c /\ s.t[q].cpu = c}

\* pc.pulled holds the hooks, other than pre_schedule, that have brought a
\* queued task onto their runqueue.
InitPull ==
    /\ tasks = [p \in Tasks |-> InitTask(TRUE, TaskParamsPull[p], CPUs)]
    /\ rqs = [c \in CPUs |-> InitRq]
    /\ rd = [dlo_mask |-> {}, dlo_count |-> 0,
             total_bw |-> SumBw(tasks, Tasks)]
    /\ clock = 0
    /\ hrskew = ClockSkew
    /\ bug = {}
    /\ pc = [acct |-> FALSE, horizon |-> MaxClockPull, params |-> TaskParamsPull,
             raced |-> {}, rearmed |-> {}, pulled |-> {}]

ClassChange(p) ==
    /\ tasks[p].alive
    /\ dl_policy(tasks[p].policy)
    /\ tasks[p].on_rq
    /\ \A c \in CPUs : rqs[c].curr # p
    /\ Bind(sched_setscheduler(State, p, SCHED_NORMAL), LAMBDA s :
           CommitWith(s, [pc EXCEPT !.pulled =
               IF MovedOnto(s, tasks[p].cpu) = {} THEN @
               ELSE @ \cup {"switched_from"}]))

\* sched_setscheduler_ex() of the task that is running on its cpu.
ChangeParams(p) ==
    /\ tasks[p].alive
    /\ dl_policy(tasks[p].policy)
    /\ rqs[tasks[p].cpu].curr = p
    /\ tasks[p].on_rq
    /\ Bind(sched_setscheduler_ex(State, p, pc.params[p]), LAMBDA s :
           CommitWith(s, [pc EXCEPT !.pulled =
               IF MovedOnto(s, tasks[p].cpu) = {} THEN @
               ELSE @ \cup {"prio_changed"}]))

NextPull ==
    \/ AdvanceClock
    \/ \E c \in CPUs : Tick(c)
    \/ \E c \in CPUs, sleep \in BOOLEAN : Schedule(c, sleep)
    \/ \E p \in Tasks, c \in CPUs : Wakeup(p, c)
    \/ \E p \in Tasks : TimerExpire(p)
    \/ \E p \in Tasks, c \in CPUs : TimerCallback(p, c)
    \/ \E p \in Tasks : ClassChange(p)
    \/ \E p \in Tasks : ChangeParams(p)

SpecPull == InitPull /\ [][NextPull]_vars

---------------------------------------------------------------------------
(* Replenishments on one cpu: task 2 is an ordinary task whose timer
   callback may run late; task 1 holds a lock that task 3, with a larger
   budget, waits for *)

MaxClockRepl == 5

TaskParamsRepl ==
    [p \in Tasks |->
        CASE p = 1 -> SchedParam(1, 3, 3, {})
          [] p = 2 -> SchedParam(1, 2, 2, {})
          [] OTHER -> SchedParam(2, 2, 2, {})]

\* The waiter was activated at time 0 and blocked at once; it stays blocked.
InitRepl ==
    /\ tasks = [p \in Tasks |->
           LET t == InitTask(TRUE, TaskParamsRepl[p], {0})
           IN  IF p = 1 THEN [t EXCEPT !.pi_top_task = 3]
               ELSE IF p = 3
                    THEN [t EXCEPT !.dl_new = FALSE, !.runtime = t.dl_runtime,
                                   !.deadline = t.dl_deadline]
                    ELSE t]
    /\ InitSystem(MaxClockRepl, TaskParamsRepl, FALSE)

SpecRepl == InitRepl /\ [][NextRecl]_vars

---------------------------------------------------------------------------
(* replenish_dl_entity() and dl_entity_overflow() as functions: task 1
   with any runtime left or overrun, any deadline and clock of the word,
   taken with its own parameters or with those of task 3 *)

MaxOverrun == 3

TaskParamsFn ==
    [p \in Tasks |->
        CASE p = 1 -> SchedParam(2, 3, 4, {})
          [] p = 2 -> SchedParam(1, 2, 2, {})
          [] OTHER -> SchedParam(1, 2, 2, {})]

\* pc.before holds the runtime and the deadline replenish_dl_entity() was
\* called with and pc.pi the entity whose parameters it was given;
\* pc.overflow holds what dl_entity_overflow() returned, and for which
\* parameters.
InitFn ==
    \E runtime \in (0 - MaxOverrun)..MaxOverrun, deadline \in 0..(TwoW - 1),
       now \in {0, 3, TwoW - 2} :
        /\ tasks = [p \in Tasks |->
               IF p = 1
               THEN [InitTask(TRUE, TaskParamsFn[p], {0}) EXCEPT
                        !.on_rq = TRUE, !.dl_new = FALSE,
                        !.runtime = runtime, !.deadline = deadline]
               ELSE InitTask(p = 3, TaskParamsFn[p], {0})]
        /\ rqs = [c \in CPUs |-> InitRq]
        /\ rd = [dlo_mask |-> {}, dlo_count |-> 0]
        /\ clock = now
        /\ hrskew = ClockSkew
        /\ bug = {}
        /\ pc = [acct |-> FALSE, horizon |-> now, params |-> TaskParamsFn,
                 before |-> <<>>, pi |-> NoTask, overflow |-> <<>>]

Replenish(p, pi) ==
    /\ pc.pi = NoTask
    /\ pc.overflow = <<>>
    /\ tasks[p].on_rq
    /\ tasks[p].runtime <= 0
    /\ CommitWith(replenish_dl_entity(State, p, pi),
                  [pc EXCEPT !.before = <<tasks[p].runtime, tasks[p].deadline>>,
                             !.pi = pi])

Overflow(p, pi) ==
    /\ pc.pi = NoTask
    /\ pc.overflow = <<>>
    /\ pc' = [pc EXCEPT !.overflow = <<pi, dl_entity_overflow(State, p, pi, clock)>>]
    /\ UNCHANGED <<tasks, rqs, rd, clock, hrskew, bug>>

NextFn ==
    \/ \E pi \in {1, 3} : Replenish(1, pi)
    \/ \E pi \in {1, 3} : Overflow(1, pi)

SpecFn == InitFn /\ [][NextFn]_vars

---------------------------------------------------------------------------
(* The search for a later runqueue: three cpus, task 1 searched for while
   it sleeps or is queued, tasks 2 and 3 queued somewhere or asleep, and
   three domain hierarchies *)

CpusFind == {0, 1, 2}

\* One wake-affine domain over every cpu; one domain that is not
\* wake-affine; cpus 0 and 1 in a lower domain of their own under a domain
\* over every cpu, both wake-affine.
TopologiesFind ==
    { [c \in CpusFind |-> <<[wake_affine |-> TRUE, span |-> CpusFind]>>],
      [c \in CpusFind |-> <<[wake_affine |-> FALSE, span |-> CpusFind]>>],
      [c \in CpusFind |->
          <<[wake_affine |-> TRUE, span |-> IF c = 2 THEN {2} ELSE {0, 1}],
            [wake_affine |-> TRUE, span |-> CpusFind]>>] }

TaskParamsFind == [p \in Tasks |-> SchedParam(1, 1, 1, {})]

\* The absolute deadlines a task may have.
DeadlinesFind ==
    [p \in Tasks |-> CASE p = 1 -> {2, 3} [] p = 2 -> {1, 4} [] OTHER -> {3, 5}]

\* activate_task() of the tasks of order, one after the other, each on
\* the runqueue of its cpu.
RECURSIVE ActivateAll(_, _)
ActivateAll(s, order) ==
    IF order = <<>> THEN s
    ELSE ActivateAll(activate_task(s, s.t[Head(order)].cpu, Head(order), {}),
                     Tail(order))

\* pc.later holds the cpu that searched and the cpu it found.
InitFind ==
    \E cpu1 \in CpusFind, mask \in SUBSET CpusFind, queued \in BOOLEAN,
       place \in [{2, 3} -> CpusFind \cup {NoCpu}],
       dl \in [Tasks -> 1..5], sd \in TopologiesFind :
        /\ cpu1 \in mask
        /\ \A p \in Tasks : dl[p] \in DeadlinesFind[p]
        /\ LET t0 == [p \in Tasks |->
                         [InitTask(TRUE, TaskParamsFind[p],
                                   IF p = 1 THEN mask ELSE CpusFind) EXCEPT
                              !.cpu = IF p = 1 THEN cpu1
                                      ELSE IF place[p] = NoCpu THEN 0
                                      ELSE place[p],
                              !.dl_new = FALSE, !.runtime = 1,
                              !.deadline = dl[p]]]
               s0 == [t |-> t0, q |-> [c \in CpusFind |-> InitRq],
                      rd |-> [dlo_mask |-> {}, dlo_count |-> 0, sd |-> sd],
                      clock |-> 0, hrskew |-> ClockSkew, bug |-> {},
                      acct |-> FALSE]
               s1 == ActivateAll(s0, SelectSeq(<<1, 2, 3>>, LAMBDA p :
                                        IF p = 1 THEN queued
                                        ELSE place[p] # NoCpu))
           IN  /\ tasks = s1.t
               /\ rqs = s1.q
               /\ rd = s1.rd
               /\ bug = s1.bug
        /\ clock = 0
        /\ hrskew = ClockSkew
        /\ pc = [acct |-> FALSE, horizon |-> 0, params |-> TaskParamsFind,
                 later |-> <<>>]

FindLater(p, this_cpu) ==
    /\ pc.later = <<>>
    /\ pc' = [pc EXCEPT !.later = <<this_cpu, find_later_rq(State, p, this_cpu)>>]
    /\ UNCHANGED <<tasks, rqs, rd, clock, hrskew, bug>>

NextFind == \E this_cpu \in CpusFind : FindLater(1, this_cpu)

SpecFind == InitFind /\ [][NextFind]_vars

---------------------------------------------------------------------------
(* A push that waits for the lock of the runqueue it found: three tasks
   on two cpus; double_lock_balance() releases rq->lock, the other cpus
   act, and the push goes on when both locks are held.  pc.push is the
   push that waits; pc.moved is the migration and pc.dropped the task given
   up by the last push that waited, until the next push waits *)

MaxClockPush == 1

\* No push waits for a lock, or the one that does is not run by cpu c.
CpuFree(c) == IF pc.push = <<>> THEN TRUE ELSE pc.push[1].by # c

\* push_dl_task() run by cpu by on the runqueue of c gets as far as the
\* lock of another runqueue.
PushBlocks(s, c, by) ==
    /\ s.q[c].overloaded
    /\ LET next_task == pick_next_pushable_dl_task(s, c).p
       IN  /\ next_task # NoTask
           /\ ~PushGivesUp(s, c, next_task)
           /\ find_later_rq(s, next_task, by) \notin {NoCpu, c}

\* The push of cpu by on the runqueue of c, as it starts to wait: the task,
\* the cpu found, what find_later_rq() saw there, and the number of the
\* attempt of find_lock_later_rq().
PushRecord(s, c, by, task, tries) ==
    LET cpu == find_later_rq(s, task, by)
    IN  [rq |-> c, by |-> by, task |-> task, cpu |-> cpu, tries |-> tries,
         stage |-> "lock", deadline |-> s.t[task].deadline,
         nr |-> s.q[cpu].dl_nr_running, earliest |-> s.q[cpu].earliest_curr]

InitPush ==
    /\ tasks = [p \in Tasks |-> InitTask(TRUE, TaskParamsPull[p], CPUs)]
    /\ rqs = [c \in CPUs |-> InitRq]
    /\ rd = [dlo_mask |-> {}, dlo_count |-> 0]
    /\ clock = 0
    /\ hrskew = ClockSkew
    /\ bug = {}
    /\ pc = [acct |-> FALSE, horizon |-> MaxClockPush, params |-> TaskParamsPull,
             push |-> <<>>, moved |-> <<>>, dropped |-> <<>>]

\* schedule() on cpu c as far as the lock its post_schedule push waits for.
ScheduleUntilLock(c) ==
    /\ pc.push = <<>>
    /\ LET pk == schedule_pick(State, c, FALSE)
       IN  /\ pk.post_schedule
           /\ PushBlocks(pk.s, c, c)
           /\ CommitWith(pk.s,
                  [pc EXCEPT !.moved = <<>>, !.dropped = <<>>, !.push =
                      <<PushRecord(pk.s, c, c,
                                   pick_next_pushable_dl_task(pk.s, c).p, 1)>>])

\* try_to_wake_up(p) on this_cpu as far as the lock the push of
\* task_woken_dl() waits for.
WakeupUntilLock(p, this_cpu) ==
    /\ pc.push = <<>>
    /\ tasks[p].alive
    /\ ~tasks[p].on_rq
    /\ LET r == ttwu_activate(State, p, this_cpu)
       IN  /\ task_woken_dl_pushes(r.s, r.cpu, p)
           /\ PushBlocks(r.s, r.cpu, this_cpu)
           /\ CommitWith(r.s,
                  [pc EXCEPT !.moved = <<>>, !.dropped = <<>>, !.push =
                      <<PushRecord(r.s, r.cpu, this_cpu,
                                   pick_next_pushable_dl_task(r.s, r.cpu).p, 1)>>])

\* find_lock_later_rq() has returned later (NoCpu for NULL) to the push
\* that waited, in its attempt number tries: push_dl_task() migrates the
\* task or gives it up, and push_dl_tasks() goes on.
PushGoesOn(later, tries) ==
    CommitWith(
        Bind(PushLocked(State, pc.push[1].rq, pc.push[1].by, pc.push[1].task,
                        later, Cardinality(Tasks)),
             LAMBDA r : IF r.ret
                        THEN push_dl_tasks(r.s, pc.push[1].rq, pc.push[1].by)
                        ELSE r.s),
        [pc EXCEPT
            !.push = <<>>,
            !.moved =
                IF later = NoCpu THEN <<>>
                ELSE <<[task |-> pc.push[1].task, from |-> pc.push[1].rq,
                        to |-> later,
                        changed |->
                            \/ later # pc.push[1].cpu
                            \/ tasks[pc.push[1].task].deadline # pc.push[1].deadline
                            \/ rqs[later].dl_nr_running # pc.push[1].nr
                            \/ rqs[later].earliest_curr # pc.push[1].earliest]>>,
            !.dropped =
                IF /\ later = NoCpu
                   /\ tasks[pc.push[1].task].cpu = pc.push[1].rq
                   /\ pick_next_pushable_dl_task(State, pc.push[1].rq).p
                          = pc.push[1].task
                THEN <<[task |-> pc.push[1].task, tries |-> tries]>>
                ELSE <<>>])

\* The push that waited holds both locks: find_lock_later_rq() checks
\* what has changed and whether the runqueue found is still a later one;
\* if it is not, it unlocks that runqueue and, unless this was the last
\* attempt, looks for another.
PushRelock ==
    /\ pc.push # <<>>
    /\ pc.push[1].stage = "lock"
    /\ LET task == pc.push[1].task
           cpu == pc.push[1].cpu
           changed == find_lock_later_rq_changed(State, task, pc.push[1].rq, cpu)
           later == \/ rqs[cpu].dl_nr_running = 0
                    \/ dl_time_before(tasks[task].deadline,
                                      rqs[cpu].earliest_curr)
       IN  IF ~changed /\ ~later /\ pc.push[1].tries < DL_MAX_TRIES
           THEN CommitWith(State, [pc EXCEPT !.push[1].stage = "find"])
           ELSE PushGoesOn(IF ~changed /\ later THEN cpu ELSE NoCpu,
                           pc.push[1].tries)

\* The next attempt of find_lock_later_rq(), the lock of its own runqueue
\* held: find_later_rq() looks at the other runqueues again.
PushFindAgain ==
    /\ pc.push # <<>>
    /\ pc.push[1].stage = "find"
    /\ LET c == pc.push[1].rq
           by == pc.push[1].by
           task == pc.push[1].task
       IN  IF find_later_rq(State, task, by) \in {NoCpu, c}
           THEN PushGoesOn(NoCpu, pc.push[1].tries + 1)
           ELSE CommitWith(State,
                    [pc EXCEPT !.push =
                        <<PushRecord(State, c, by, task, pc.push[1].tries + 1)>>])

\* While a push holds the lock of its runqueue between two attempts, the
\* other cpus leave that runqueue and its tasks alone.
LockRespected ==
    IF pc.push = <<>> THEN TRUE
    ELSE IF pc.push[1].stage = "lock" THEN TRUE
    ELSE /\ rqs'[pc.push[1].rq] = rqs[pc.push[1].rq]
         /\ \A p \in Tasks :
               tasks[p].cpu = pc.push[1].rq => tasks'[p] = tasks[p]

NextPush ==
    \/ AdvanceClock
    \/ \E c \in CPUs : CpuFree(c) /\ Tick(c) /\ LockRespected
    \/ \E c \in CPUs, sleep \in BOOLEAN :
          CpuFree(c) /\ Schedule(c, sleep) /\ LockRespected
    \/ \E p \in Tasks, c \in CPUs : CpuFree(c) /\ Wakeup(p, c) /\ LockRespected
    \/ \E c \in CPUs : ScheduleUntilLock(c)
    \/ \E p \in Tasks, c \in CPUs : WakeupUntilLock(p, c)
    \/ PushRelock
    \/ PushFindAgain

SpecPush == InitPush /\ [][NextPush]_vars

---------------------------------------------------------------------------
(* Load balancing among three cpus: five tasks, of which task 2 may be
   pinned and task 3 draws its affinity, are placed on the runqueues; the
   cpus then schedule (pull before the pick, push after the switch) and
   wake up the tasks that went to sleep.  The clock stands still, so that
   no deadline moves: task p has deadline p, tasks 4 and 5 deadline 4 *)

TasksBal == 1..5

TaskParamsBal == [p \in TasksBal |-> SchedParam(1, 1, 1, {})]

MasksBal == {CpusFind, {0, 1}, {1, 2}}

InitBal ==
    \E place \in [TasksBal -> CpusFind], pinned \in BOOLEAN, mask \in MasksBal :
        /\ place[3] \in mask
        /\ LET t0 == [p \in TasksBal |->
                         [InitTask(TRUE, TaskParamsBal[p],
                                   IF p = 2 /\ pinned THEN {place[p]}
                                   ELSE IF p = 3 THEN mask ELSE CpusFind)
                          EXCEPT !.cpu = place[p],
                                 !.dl_new = FALSE, !.runtime = 1,
                                 !.deadline = IF p = 5 THEN 4 ELSE p]]
               s0 == [t |-> t0, q |-> [c \in CpusFind |-> InitRq],
                      rd |-> [dlo_mask |-> {}, dlo_count |-> 0],
                      clock |-> 0, hrskew |-> ClockSkew, bug |-> {},
                      acct |-> FALSE]
               s1 == ActivateAll(s0, <<1, 2, 3, 4, 5>>)
           IN  /\ tasks = s1.t
               /\ rqs = s1.q
               /\ rd = s1.rd
               /\ bug = s1.bug
        /\ clock = 0
        /\ hrskew = ClockSkew
        /\ pc = [acct |-> FALSE, horizon |-> 0, params |-> TaskParamsBal]

NextBal ==
    \/ \E c \in CpusFind, sleep \in BOOLEAN : Schedule(c, sleep)
    \/ \E p \in TasksBal, c \in CpusFind : Wakeup(p, c)

SpecBal == InitBal /\ [][NextBal]_vars

---------------------------------------------------------------------------
(* Properties *)

NoBug == bug = {}

IsHead(p) == FLAG_SF_HEAD \in tasks[p].flags
Queued(c) == SeqSet(rqs[c].tree)
QueuedHeads(c) == {e \in Queued(c) : IsHead(e)}

\* e has the minimum absolute deadline of the set among.
MinDeadlineOf(e, among) ==
    /\ e \in among
    /\ \A o \in among : ~dl_time_before(tasks[o].deadline, tasks[e].deadline)

\* C1: on every CPU the cached leftmost entity is the queued entity with the
\* minimum deadline when no HEAD entity is queued, and the HEAD entity with
\* the minimum deadline otherwise; pick_next_task returns that entity, or
\* NULL when the tree is empty.
C1_LeftmostIsEdfMinimum ==
    \A c \in CPUs :
        LET picked == pick_next_task_dl(State, c).p
        IN  /\ picked = rqs[c].rb_leftmost
            /\ IF Queued(c) = {} THEN picked = NoTask
               ELSE IF QueuedHeads(c) = {} THEN MinDeadlineOf(picked, Queued(c))
               ELSE MinDeadlineOf(picked, QueuedHeads(c))

\* C1 with at most one HEAD entity queued on the CPU.
C1_LeftmostWithOneHead ==
    \A c \in CPUs :
        Cardinality(QueuedHeads(c)) <= 1 =>
            LET picked == pick_next_task_dl(State, c).p
            IN  /\ picked = rqs[c].rb_leftmost
                /\ IF Queued(c) = {} THEN picked = NoTask
                   ELSE IF QueuedHeads(c) = {} THEN MinDeadlineOf(picked, Queued(c))
                   ELSE MinDeadlineOf(picked, QueuedHeads(c))


---------------------------------------------------------------------------
(* Throttling and the budget *)

\* p gets throttled in this step.
GetsThrottled(p) == ~tasks[p].dl_throttled /\ tasks'[p].dl_throttled

\* The step is p's own sched_yield().
OwnYield(p) == \E c \in CPUs : rqs[c].curr = p /\ Yield(c)

IsRunning(p) == rqs[tasks[p].cpu].curr = p

\* The deadline of p has passed.
Missed(p) == dl_time_before(tasks[p].deadline, clock)

\* The deadline of p has passed by less than a microsecond.
JustMissed(p) == Missed(p) /\ ktime_to_us(S64(tasks[p].deadline - clock)) = 0

\* The runtime update_curr_dl() charged p down to, the penalty for a missed
\* deadline left out.
ChargedRuntime(p) ==
    tasks[p].runtime + (IF Missed(p) THEN S64(clock - tasks[p].deadline) ELSE 0)

---------------------------------------------------------------------------
(* The bandwidth a task gets *)

\* What p was charged in the interval (a, b], b the present or a past
\* instant: sum_exec_runtime at the end of b less its value at the end of a.
SumAtEnd(p, t) ==
    IF t < 0 THEN 0
    ELSE IF t < Len(pc.hist) THEN pc.hist[t + 1][p]
    ELSE tasks[p].sum_exec_runtime

ChargedIn(p, a, b) == SumAtEnd(p, b) - SumAtEnd(p, a)

CeilDiv(x, y) == (x + y - 1) \div y

\* The bound of C3 for an interval of length d.
BandwidthBound(p, d) ==
    CeilDiv(d, tasks[p].dl_period) * tasks[p].dl_runtime + tasks[p].dl_runtime

\* C3 as stated: over any interval of length D that spans a period, the
\* task is charged at most ceil(D / dl_period) * dl_runtime + dl_runtime.
C3_ChargedWithinBandwidth ==
    \A p \in Tasks : \A a \in 0..clock : \A b \in a..clock :
        b - a >= tasks[p].dl_period =>
            ChargedIn(p, a, b) <= BandwidthBound(p, b - a)

\* C3: a task that never blocks is charged, by the update_curr calls of any
\* interval of length D that spans a period, at most
\* ceil(D / dl_period) * dl_runtime + dl_runtime plus twice the time it can
\* stay current without being charged beyond one clock unit.
C3_ChargedWithinBandwidthAndGap ==
    \A p \in Tasks : \A a \in 0..clock : \A b \in a..clock :
        b - a >= tasks[p].dl_period =>
            ChargedIn(p, a, b) <= BandwidthBound(p, b - a) + 2 * (TickGap - 1)

\* A task charged, in an interval that spans a period, more than
\* ceil(D / dl_period) * dl_runtime + dl_runtime, and throttled for it.
C3_ChargedBeyondBandwidth ==
    \E p \in Tasks : \E a \in 0..clock : \E b \in a..clock :
        /\ b - a >= tasks[p].dl_period
        /\ ChargedIn(p, a, b) > BandwidthBound(p, b - a)
        /\ tasks[p].dl_throttled
        /\ tasks[p].timer_active

---------------------------------------------------------------------------
(* Scenario S1 *)

\* The pending instance of B has not had its CPU time by its deadline.
MissedB ==
    /\ pc.working
    /\ pc.work < pc.need
    /\ clock >= pc.release + tasks[TaskB].dl_deadline

\* A, its budget used up, is throttled and out of the ready tree until the
\* timer replenishes it.
ThrottledWhileExhaustedA ==
    pc.started /\ tasks[TaskA].runtime <= 0 =>
        /\ tasks[TaskA].dl_throttled
        /\ tasks[TaskA].timer_active
        /\ ~on_dl_rq(State, TaskA)

\* C4 as stated: every instance of B has its 3 ms before its deadline, and
\* A is out of the ready tree from budget exhaustion to replenishment.
C4_IsolationUnderOverrun ==
    ~MissedB /\ ThrottledWhileExhaustedA

\* C4: every instance of B has its CPU time before its deadline when B
\* needs less than its budget, and A is out of the ready tree from budget
\* exhaustion to replenishment.
C4_IsolationBelowBudget ==
    /\ pc.need < tasks[TaskB].dl_runtime => ~MissedB
    /\ ThrottledWhileExhaustedA

\* B, needing less than its budget, has completed three instances while A
\* is throttled.
C4_ThreeInstancesDone ==
    /\ pc.need < tasks[TaskB].dl_runtime
    /\ pc.release = 3 * tasks[TaskB].dl_period
    /\ tasks[TaskA].dl_throttled

---------------------------------------------------------------------------
(* Overload tracking *)

Migratory(c) == {e \in Queued(c) : tasks[e].nr_cpus_allowed > 1}

\* The overloaded flag of a CPU is what its ready tree says.
OverloadedIsTree ==
    \A c \in CPUs :
        rqs[c].overloaded <=> Cardinality(Queued(c)) >= 2 /\ Migratory(c) # {}

\* C5 as stated: on every CPU, online or offline, the overloaded flag is
\* true iff the ready tree holds at least two entities, one of them
\* migratable, and the CPU's bit in dlo_mask equals the flag.
C5_OverloadFlagAndMask ==
    /\ OverloadedIsTree
    /\ \A c \in CPUs : c \in rd.dlo_mask <=> rqs[c].overloaded

\* C5: on every CPU the overloaded flag is true iff the ready tree holds at
\* least two entities, one of them migratable; the CPU's bit in dlo_mask is
\* set iff the flag is set and the CPU is online.
C5_OverloadMaskOfOnline ==
    /\ OverloadedIsTree
    /\ \A c \in CPUs : c \in rd.dlo_mask <=> rqs[c].overloaded /\ rqs[c].online

\* An offline CPU whose overloaded flag is set, after affinity changes.
C5_OfflineOverloaded ==
    \E c \in CPUs :
        /\ ~rqs[c].online
        /\ rqs[c].overloaded
        /\ c \notin rd.dlo_mask
        /\ \E p \in Tasks : tasks[p].nr_cpus_allowed = 1

\* dlo_count is the number of bits of dlo_mask when no update is in
\* progress and never exceeds it in between.
CountWithinMask ==
    /\ rd.dlo_count <= Cardinality(rd.dlo_mask)
    /\ (\A c \in CPUs : pc.op[c] = "idle") =>
           rd.dlo_count = Cardinality(rd.dlo_mask)

\* The reader that saw dlo_count > 0 iterates a mask that holds every CPU
\* the counter has accounted for since.
ReaderFindsAccounted ==
    pc.rdr = "done" /\ pc.seen_count > 0 => pc.snap \subseteq pc.seen_mask

\* C6: dlo_count equals the number of bits set in dlo_mask whenever no
\* overload update is in progress and never exceeds it at an intermediate
\* step, and a reader that sees dlo_count > 0 and then iterates dlo_mask
\* finds every CPU the counter accounts for.
C6_CountWithinMaskForReader ==
    CountWithinMask /\ ReaderFindsAccounted

\* C6 for a reader whose loads are not reordered.
C6_OrderedReaderFindsAccounted ==
    pc.rdr = "done" /\ pc.seen_count > 0 /\ pc.early = {} =>
        pc.snap \subseteq pc.seen_mask

---------------------------------------------------------------------------
(* Throttled entities *)

InPushable(c) == SeqSet(rqs[c].pushable)

\* C7: a throttled entity is in no ready tree and in no pushable tree, and
\* enqueue_task on it, whatever the flags, leaves the state (both trees,
\* the counters, earliest.curr/next, its runtime and deadline) as it is.
C7_ThrottledOutOfTrees ==
    \A p \in Tasks :
        tasks[p].dl_throttled =>
            /\ \A c \in CPUs : p \notin Queued(c) /\ p \notin InPushable(c)
            /\ \A flags \in SUBSET {ENQUEUE_WAKEUP, ENQUEUE_REPLENISH} :
                   enqueue_task_dl(State, tasks[p].cpu, p, flags) = State

\* A throttled task, woken or switched out while it waits for its timer.
C7_ThrottledOnRunqueue ==
    \E p \in Tasks :
        /\ tasks[p].dl_throttled
        /\ tasks[p].timer_active
        /\ tasks[p].on_rq
        /\ rqs[tasks[p].cpu].curr # p
        /\ rqs[tasks[p].cpu].curr # NoTask

\* C8: a deadline task is in the ready tree of its CPU, and of no other,
\* if and only if it is on its runqueue and not throttled.
C8_InTreeIffRunnableUnthrottled ==
    \A p \in Tasks :
        tasks[p].alive =>
            /\ p \in Queued(tasks[p].cpu) <=>
                   tasks[p].on_rq /\ ~tasks[p].dl_throttled
            /\ \A c \in CPUs \ {tasks[p].cpu} : p \notin Queued(c)

\* A task that has used up a budget, has been replenished and is back in
\* the ready tree, on the CPU it has been moved to.
C8_ReplenishedBackInTree ==
    \E p \in Tasks :
        /\ p \in Queued(1)
        /\ tasks[p].cpu = 1
        /\ tasks[p].sum_exec_runtime >= tasks[p].dl_runtime
        /\ tasks[p].runtime > 0
        /\ ~tasks[p].dl_throttled

---------------------------------------------------------------------------
(* The replenishment timer of a throttled entity *)

\* The timer of p is armed and expires, on the runqueue's clock, at the
\* deadline of p or later.
TimerArmed(p) ==
    /\ tasks[p].timer_active
    /\ tasks[p].timer_expires - hrskew >= tasks[p].deadline

Unthrottled(p) == tasks[p].dl_throttled /\ ~tasks[p].dl_throttled'

---------------------------------------------------------------------------
(* Preemption on wakeup *)

\* p preempts q by the comparator of C10: p is HEAD and q is not, or
\* neither is set apart by HEAD and the deadline of p is the earlier one.
PreemptsByComparator(p, q) ==
    \/ IsHead(p) /\ ~IsHead(q)
    \/ /\ IsHead(p) = IsHead(q)
       /\ dl_time_before(tasks[p].deadline, tasks[q].deadline)

DeadlineTie(p, q) == S64(tasks[p].deadline - tasks[q].deadline) = 0

\* check_preempt_curr_dl() for p on CPU c asks for a reschedule.
RequestsResched(c, p) ==
    check_preempt_curr_dl([State EXCEPT !.q[c].need_resched = FALSE],
                          c, p).q[c].need_resched

\* check_preempt_equal_dl() for p on CPU c asks for a reschedule.
EqualRequestsResched(c, p) ==
    check_preempt_equal_dl([State EXCEPT !.q[c].need_resched = FALSE],
                           c, p).q[c].need_resched

\* The reschedule check_preempt_curr has to ask for, by C10.
PreemptionAsStated(c, p) ==
    LET curr == rqs[c].curr
    IN  IF curr = NoTask THEN RequestsResched(c, p)
        ELSE RequestsResched(c, p) <=>
                 \/ PreemptsByComparator(p, curr)
                 \/ DeadlineTie(p, curr) /\ EqualRequestsResched(c, p)

\* C10: for a task p queued on a CPU and not its current task,
\* check_preempt_curr asks for a reschedule iff the current task is not a
\* deadline task or p preempts it by the comparator, a deadline tie being
\* decided by check_preempt_equal.
C10_PreemptIffComparator ==
    \A c \in CPUs : \A p \in Queued(c) \ {rqs[c].curr} :
        PreemptionAsStated(c, p)

\* C10 for a task and a current task that are not both HEAD.
C10_PreemptUnlessBothHead ==
    \A c \in CPUs : \A p \in Queued(c) \ {rqs[c].curr} :
        ~(rqs[c].curr # NoTask /\ IsHead(p) /\ IsHead(rqs[c].curr)) =>
            PreemptionAsStated(c, p)

---------------------------------------------------------------------------
(* Yield *)

\* p, current, queued, with budget left and its deadline ahead, yields.
YieldsInTime(p) ==
    /\ OwnYield(p)
    /\ p \in Queued(tasks[p].cpu)
    /\ tasks[p].runtime > 0
    /\ dl_time_before(clock, tasks[p].deadline)

\* p leaves the tree throttled, a new instance pending, the timer set to
\* its deadline.
SleepsUntilDeadline(p) ==
    /\ tasks[p].dl_throttled'
    /\ tasks[p].dl_new'
    /\ ~on_dl_rq(State, p)'
    /\ tasks[p].timer_active'
    /\ tasks[p].timer_expires' - hrskew = tasks[p].deadline
    /\ tasks[p].deadline' = tasks[p].deadline

\* The timer of p, which yielded, is still runnable and is not running,
\* fires.
TimerEndsYield(p) ==
    /\ tasks[p].dl_throttled
    /\ tasks[p].dl_new
    /\ tasks[p].on_rq
    /\ ~IsRunning(p)
    /\ \E c \in CPUs : TimerFire(p, c)

\* p is back in a ready tree as a new instance that starts now, not before
\* the deadline it yielded with.
StartsNewInstance(p) ==
    /\ ~dl_time_before(clock, tasks[p].deadline)
    /\ on_dl_rq(State, p)'
    /\ ~tasks[p].dl_throttled'
    /\ ~tasks[p].dl_new'
    /\ tasks[p].runtime' = tasks[p].dl_runtime
    /\ tasks[p].deadline' = U64(clock + tasks[p].dl_deadline)

---------------------------------------------------------------------------
(* Wait until the next instance *)

---------------------------------------------------------------------------
(* Push *)

\* The state in which push_dl_tasks(c) is entered by this step, if it is:
\* from post_schedule_dl() or from task_woken_dl(), on an overloaded
\* runqueue.
SchedulePushes(c, sleep) ==
    /\ Bind(schedule_pick(State, c, sleep), LAMBDA pk :
           pk.post_schedule /\ pk.s.q[c].overloaded)
    /\ Schedule(c, sleep)

WakeupPushes(c, p, this_cpu) ==
    /\ tasks[p].alive
    /\ ~tasks[p].on_rq
    /\ Bind(ttwu_activate(State, p, this_cpu), LAMBDA r :
           r.cpu = c /\ r.s.q[c].overloaded /\ task_woken_dl_pushes(r.s, c, p))
    /\ Wakeup(p, this_cpu)

PushReturns(c) ==
    \/ \E sleep \in BOOLEAN : SchedulePushes(c, sleep)
    \/ \E p \in Tasks, this_cpu \in CPUs : WakeupPushes(c, p, this_cpu)

\* Every other cpu has a deadline task and an earliest deadline not later
\* than that of p.
NoLaterRq(c, p) ==
    \A o \in CPUs \ {c} :
        /\ rqs[o].dl_nr_running > 0
        /\ ~dl_time_before(tasks[p].deadline, rqs[o].earliest_curr)

PushedOutAsStated(c) ==
    \/ rqs[c].dl_nr_migratory = 0
    \/ /\ rqs[c].pushable_leftmost # NoTask
       /\ NoLaterRq(c, rqs[c].pushable_leftmost)

PushableAtEntry(c) ==
    UNION ({IF SchedulePushes(c, sleep)
            THEN SeqSet(schedule_pick(State, c, sleep).s.q[c].pushable)
            ELSE {} : sleep \in BOOLEAN}
           \cup
           {IF WakeupPushes(c, w[1], w[2])
            THEN SeqSet(ttwu_activate(State, w[1], w[2]).s.q[c].pushable)
            ELSE {} : w \in Tasks \X CPUs})

\* push_dl_task() gave up at its "just reschedule" exit: the leftmost
\* pushable task has an earlier deadline than the current task, which can
\* move away.
LeftToResched(c) ==
    LET next_task == rqs[c].pushable_leftmost
        curr == rqs[c].curr
    IN  /\ next_task # NoTask
        /\ curr # NoTask
        /\ dl_time_before(tasks[next_task].deadline, tasks[curr].deadline)
        /\ tasks[curr].nr_cpus_allowed > 1
        /\ rqs[c].need_resched

---------------------------------------------------------------------------
(* Leaving the class *)

\* p is throttled with its timer armed and this step moves it out of the
\* deadline class.
LeavesThrottled(p) ==
    /\ tasks[p].dl_throttled
    /\ tasks[p].timer_active
    /\ SwitchedFrom(p)

NeverQueuedOutOfClass ==
    \A p \in Tasks : ~dl_policy(tasks[p].policy) =>
        /\ ~on_dl_rq(State, p)
        /\ \A c \in CPUs : ~InSeq(rqs[c].pushable, p)

---------------------------------------------------------------------------
(* Exemptions from throttling *)

Boosted(p) == tasks[p].pi_top_task # NoTask

Exempt(p) ==
    IsHead(p) \/ FLAG_SF_BWRECL_DL \in tasks[p].flags \/ Boosted(p)

\* This step runs update_curr_dl() for p, which is current and queued, and
\* finds its runtime used up or its deadline missed.
Exhausts(p) ==
    LET c == tasks[p].cpu
    IN  /\ IsRunning(p)
        /\ InSeq(rqs[c].tree, p)
        /\ \/ tasks[p].runtime - (clock - tasks[p].exec_start) <= 0
           \/ Missed(p)
        /\ \/ Tick(c)
           \/ Yield(c)
           \/ \E sleep \in BOOLEAN : Schedule(c, sleep)

\* C15: budget accounting never throttles a task that carries HEAD or
\* BWRECL_DL or is boosted; on exhaustion a HEAD task stays in the ready
\* tree with its deadline, any other such task is replenished and, unless
\* it is going to sleep, queued again at once.
C15_ExemptNeverThrottled ==
    [][\A p \in Tasks : Exempt(p) =>
          /\ ~tasks[p].dl_throttled'
          /\ ~tasks[p].timer_active'
          /\ Exhausts(p) =>
                /\ tasks[p].on_rq' => InSeq(rqs[tasks[p].cpu].tree, p)'
                /\ IF IsHead(p)
                   THEN tasks[p].deadline' = tasks[p].deadline
                   ELSE tasks[p].runtime' > 0]_vars

\* An exempt task that has overrun and is still in the ready tree, while
\* the ordinary task is throttled.
C15_ExemptOverranOrdinaryThrottled ==
    \E p, q \in Tasks :
        /\ Exempt(p)
        /\ tasks[p].on_rq
        /\ InSeq(rqs[tasks[p].cpu].tree, p)
        /\ \/ IsHead(p) /\ tasks[p].runtime <= 0
           \/ ~IsHead(p) /\ tasks[p].deadline > tasks[p].dl_deadline + clock
        /\ ~Exempt(q)
        /\ tasks[q].dl_throttled

---------------------------------------------------------------------------
(* Fork *)

\* A forked child that has not been given its parameters: throttled with
\* no timer to end it.
AwaitsParameters(p) ==
    tasks[p].alive /\ tasks[p].dl_throttled /\ ~tasks[p].timer_active

OutOfReach(p) ==
    /\ \A c \in CPUs :
          /\ ~InSeq(rqs[c].tree, p)
          /\ ~InSeq(rqs[c].pushable, p)
          /\ rqs[c].rb_leftmost # p
          /\ rqs[c].curr # p

\* C16: task_fork leaves the child with dl_throttled = 1 and dl_new = 0,
\* and until its parameters are installed no hook puts it in a ready
\* tree or makes it the current task.
C16_ForkedChildWaitsForParameters ==
    [][\A p \in Tasks :
          /\ (\E c \in CPUs : Fork(c, p)) =>
                 /\ tasks[p].dl_throttled' /\ ~tasks[p].dl_new'
                 /\ tasks[p].on_rq'
                 /\ AwaitsParameters(p)' /\ OutOfReach(p)'
          /\ AwaitsParameters(p) /\ ~SetScheduler(p) =>
                 AwaitsParameters(p)' /\ ~tasks[p].dl_new' /\ OutOfReach(p)'
      ]_vars

\* A forked child on a runqueue, still waiting for its parameters after
\* its parent has left the cpu, which is idle.
C16_ChildWaitsOnIdleCpu ==
    \E p \in Tasks :
        /\ AwaitsParameters(p)
        /\ tasks[p].on_rq
        /\ ~tasks[p].dl_new
        /\ OutOfReach(p)
        /\ rqs[tasks[p].cpu].curr = NoTask
        /\ rqs[tasks[p].cpu].tree = <<>>
        /\ ~rqs[tasks[p].cpu].need_resched

---------------------------------------------------------------------------
(* Wakeup placement *)

\* The current task of the runqueue p last ran on.
CurrOfPrev(p) == rqs[tasks[p].cpu].curr

\* select_task_rq consults find_later_rq for the waking task p.
Consults(p) ==
    /\ CurrOfPrev(p) # NoTask
    /\ \/ tasks[CurrOfPrev(p)].nr_cpus_allowed < 2
       \/ PreemptsByComparator(CurrOfPrev(p), p)
    /\ tasks[p].nr_cpus_allowed > 1

SelectsAsStated(p, sd_flag, this_cpu) ==
    select_task_rq_dl(State, tasks[p].cpu, p, sd_flag, this_cpu) =
        IF sd_flag # SD_BALANCE_WAKE THEN this_cpu
        ELSE IF Consults(p) /\ find_later_rq(State, p, this_cpu) # NoCpu
             THEN find_later_rq(State, p, this_cpu)
             ELSE tasks[p].cpu

\* A cpu with no deadline task, or whose earliest deadline is later than
\* deadline d.
LaterThan(o, d) ==
    rqs[o].dl_nr_running = 0 \/ dl_time_before(d, rqs[o].earliest_curr)

\* p, which can migrate, wakes with a deadline earlier than that of the
\* deadline task running on its previous cpu, while every other cpu is
\* idle or has only later deadlines; its deadline is earlier both before
\* and after the wakeup renews it.
EarlierWakee(p, this_cpu) ==
    /\ Wakeup(p, this_cpu)
    /\ CurrOfPrev(p) # NoTask
    /\ tasks[p].nr_cpus_allowed > 1
    /\ dl_time_before(tasks[p].deadline, tasks[CurrOfPrev(p)].deadline)
    /\ dl_time_before(tasks[p].deadline', tasks[CurrOfPrev(p)].deadline)
    /\ \A o \in CPUs \ {tasks[p].cpu} :
          LaterThan(o, tasks[p].deadline) /\ LaterThan(o, tasks[p].deadline')

SleepingTasks == {p \in Tasks : tasks[p].alive /\ ~tasks[p].on_rq}

LaterWakee(p, this_cpu) ==
    /\ Wakeup(p, this_cpu)
    /\ CurrOfPrev(p) # NoTask
    /\ tasks[p].nr_cpus_allowed > 1
    /\ dl_time_before(tasks[CurrOfPrev(p)].deadline, tasks[p].deadline)
    /\ \E o \in CPUs \ {tasks[p].cpu} : LaterThan(o, tasks[p].deadline)

---------------------------------------------------------------------------
(* The callers of pull_dl_task *)

\* The step is a hook that runs on runqueue c and leaves on it a task that
\* was queued on another runqueue: the hook has pulled.  The pushes of a
\* hook take tasks away from its runqueue.
SchedulePulls(c) ==
    /\ MovedOnto(State', c) # {}
    /\ \E sleep \in BOOLEAN : Schedule(c, sleep)

WakeupPulls(c) ==
    /\ MovedOnto(State', c) # {}
    /\ \E p \in Tasks, this_cpu \in CPUs :
          ttwu_activate(State, p, this_cpu).cpu = c /\ Wakeup(p, this_cpu)

TimerPulls(c) ==
    /\ MovedOnto(State', c) # {}
    /\ \E p \in Tasks, this_cpu \in CPUs :
          tasks[p].cpu = c /\ TimerCallback(p, this_cpu)

ClassChangePulls(c, p) ==
    /\ MovedOnto(State', c) # {}
    /\ tasks[p].cpu = c
    /\ ClassChange(p)

ChangeParamsPulls(c, p) ==
    /\ MovedOnto(State', c) # {}
    /\ tasks[p].cpu = c
    /\ ChangeParams(p)

\* Runqueue o is overloaded and holds, behind the leftmost of its tree, a
\* task that is not running, may run on cpu c and has no earlier deadline
\* than the task running on o.
Pullable(o, c) ==
    /\ o # c
    /\ rqs[o].overloaded
    /\ rqs[o].curr # NoTask
    /\ \E q \in Queued(o) \ {rqs[o].curr, rqs[o].rb_leftmost} :
          /\ c \in tasks[q].cpus_allowed
          /\ ~dl_time_before(tasks[q].deadline, tasks[rqs[o].curr].deadline)

\* C18 (as stated): only a schedule() whose previous task is a deadline
\* task pulls; no wakeup, timer callback, class change or change of
\* parameters brings a queued task onto the runqueue it runs on.
C18_PullOnlyFromPreSchedule ==
    [][\A c \in CPUs :
          /\ SchedulePulls(c) => rqs[c].curr # NoTask
          /\ ~WakeupPulls(c)
          /\ ~TimerPulls(c)
          /\ \A p \in Tasks : ~ClassChangePulls(c, p) /\ ~ChangeParamsPulls(c, p)]_vars

\* C18: schedule() pulls only when the previous task is a deadline task,
\* a wakeup and the timer callback never pull, the class change of p pulls
\* only onto a runqueue it leaves with no deadline task in its tree, and
\* does pull onto it when an overloaded runqueue has a task to give, and a
\* change of the parameters of the running task pulls only onto a runqueue
\* that is not overloaded.
C18_PullFromPreScheduleAndClassHooks ==
    [][\A c \in CPUs :
          /\ SchedulePulls(c) => rqs[c].curr # NoTask
          /\ ~WakeupPulls(c)
          /\ ~TimerPulls(c)
          /\ \A p \in Tasks :
                /\ ClassChangePulls(c, p) => Queued(c) \subseteq {p}
                /\ /\ tasks[p].cpu = c
                   /\ Queued(c) \subseteq {p}
                   /\ \E o \in CPUs : Pullable(o, c)
                   /\ ClassChange(p)
                   => MovedOnto(State', c) # {}
                /\ ChangeParamsPulls(c, p) => ~rqs[c].overloaded]_vars

\* A cpu that runs no deadline task has pulled on the class change of a
\* task queued on it, and a cpu has pulled on the change of the parameters
\* of its running task.
C18_PulledOutsidePreSchedule ==
    pc.pulled = {"switched_from", "prio_changed"}

---------------------------------------------------------------------------
(* The cached earliest deadlines *)

\* C19 (as stated): earliest.curr is the deadline of the leftmost entity
\* of the ready tree, and is 0 exactly when no entity is queued.
C19_EarliestCurrIsLeftmostDeadline ==
    \A c \in CPUs :
        /\ rqs[c].tree # <<>> =>
               rqs[c].earliest_curr = tasks[Head(rqs[c].tree)].deadline
        /\ rqs[c].earliest_curr = 0 <=> rqs[c].dl_nr_running = 0

\* C19 (where it holds): on a runqueue with no HEAD entity queued
\* earliest.curr is the deadline of the leftmost entity, and on every
\* runqueue it is 0 exactly when no entity is queued.
C19_EarliestCurrWithoutHead ==
    \A c \in CPUs :
        /\ rqs[c].tree # <<>> /\ QueuedHeads(c) = {} =>
               rqs[c].earliest_curr = tasks[Head(rqs[c].tree)].deadline
        /\ rqs[c].earliest_curr = 0 <=> rqs[c].dl_nr_running = 0

\* C20 (as stated): earliest.next is the deadline of the second entity of
\* the ready tree, whatever that entity is, and 0 when the tree holds fewer
\* than two entities.
C20_EarliestNextIsSecondDeadline ==
    \A c \in CPUs :
        rqs[c].earliest_next =
            IF Len(rqs[c].tree) < 2 THEN 0
            ELSE tasks[rqs[c].tree[2]].deadline

\* C20 (where it holds): with no HEAD entity, earliest.next is 0 when the
\* tree holds fewer than two entities, and otherwise 0 or the deadline of
\* an entity behind the leftmost.
C20_EarliestNextIsSomeLaterDeadline ==
    \A c \in CPUs :
        /\ Len(rqs[c].tree) < 2 => rqs[c].earliest_next = 0
        /\ rqs[c].earliest_next # 0 =>
               \E i \in 2..Len(rqs[c].tree) :
                   rqs[c].earliest_next = tasks[rqs[c].tree[i]].deadline

\* The second entity of a tree is the running task and earliest.next is
\* its deadline: the value an enqueue in front of it has left.
C20_NextOfRunningSecond ==
    \E c \in CPUs :
        /\ Len(rqs[c].tree) = 2
        /\ rqs[c].tree[2] = rqs[c].curr
        /\ rqs[c].earliest_next = tasks[rqs[c].tree[2]].deadline
        /\ rqs[c].earliest_next # 0

---------------------------------------------------------------------------
(* The pushable tree *)

\* The queued entities of cpu c that may run elsewhere and are not running.
Migratable(c) ==
    {e \in Queued(c) : tasks[e].nr_cpus_allowed > 1 /\ e # rqs[c].curr}

\* C21 (as stated): the pushable tree of a cpu holds exactly the entities
\* of its ready tree that are migratable and not running.
C21_PushableIsMigratableQueued ==
    \A c \in CPUs : SeqSet(rqs[c].pushable) = Migratable(c)

\* C21: the pushable tree of a cpu holds only entities of its ready tree
\* that are migratable and not running, each once.
C21_PushableWithinMigratableQueued ==
    \A c \in CPUs :
        /\ SeqSet(rqs[c].pushable) \subseteq Migratable(c)
        /\ Cardinality(SeqSet(rqs[c].pushable)) = Len(rqs[c].pushable)

\* A queued entity that is migratable and not running is missing from the
\* pushable tree of its overloaded cpu: a push that found no later
\* runqueue has taken it off.
C21_DroppedByFailedPush ==
    \E c \in CPUs :
        /\ rqs[c].overloaded
        /\ rqs[c].curr # NoTask
        /\ Migratable(c) \ SeqSet(rqs[c].pushable) # {}

---------------------------------------------------------------------------
(* Replenishment *)

\* The entity whose parameters enqueue_task_dl() uses for p.
PiOf(p) ==
    IF tasks[p].pi_top_task # NoTask /\ dl_entity_preempt(State, tasks[p].pi_top_task, p)
    THEN tasks[p].pi_top_task ELSE p

\* The timer of p is due and its callback will replenish p.
TimerReplenishes(p) ==
    /\ tasks[p].timer_active
    /\ tasks[p].timer_expires <= clock + hrskew
    /\ tasks[p].on_rq
    /\ __dl_task(State, p)
    /\ tasks[p].runtime <= 0

\* p as replenish_dl_entity() leaves it when the callback runs now.
Replenished(p) == replenish_dl_entity(State, p, PiOf(p)).t[p]

\* update_curr_dl() on cpu c finds the running task out of budget, cannot
\* arm its timer and replenishes it at once.
TickReplenishes(c) ==
    /\ rqs[c].curr # NoTask
    /\ update_curr_dl(State, c).t[rqs[c].curr].deadline # tasks[rqs[c].curr].deadline

TickReplenished(c) == update_curr_dl(State, c).t[rqs[c].curr]

Turns(runtime, dl_runtime) == ((0 - runtime) \div dl_runtime) + 1

\* C23: replenish_dl_entity() adds k * dl_period to the deadline and
\* k * dl_runtime to the runtime for the least k >= 1 that makes the runtime
\* positive, and resets to clock + dl_deadline and dl_runtime exactly when
\* the advanced deadline is before the clock; the parameters are those of
\* the entity it was given.
C23_ReplenishAdvancesByWholePeriods ==
    pc.pi # NoTask =>
        LET k == Turns(pc.before[1], tasks[pc.pi].dl_runtime)
            advanced == U64(pc.before[2] + k * tasks[pc.pi].dl_period)
        IN  /\ k >= 1
            /\ pc.before[1] + (k - 1) * tasks[pc.pi].dl_runtime <= 0
            /\ IF dl_time_before(advanced, clock)
               THEN /\ tasks[1].deadline = U64(clock + tasks[pc.pi].dl_deadline)
                    /\ tasks[1].runtime = tasks[pc.pi].dl_runtime
               ELSE /\ tasks[1].deadline = advanced
                    /\ tasks[1].runtime = pc.before[1] + k * tasks[pc.pi].dl_runtime

\* A replenishment of several turns with the entity's own parameters that
\* ends ahead of the clock.
C23_AdvancedTwoPeriods ==
    /\ pc.pi = 1
    /\ Turns(pc.before[1], tasks[1].dl_runtime) = 2
    /\ tasks[1].deadline = U64(pc.before[2] + 2 * tasks[1].dl_period)
    /\ tasks[1].runtime = pc.before[1] + 2 * tasks[1].dl_runtime
    /\ S64(tasks[1].deadline - clock) > 0

---------------------------------------------------------------------------
(* The overflow predicate *)

\* The two sides of the test as integers, for the entity and the
\* parameters dl_entity_overflow() was called with: the time left to the
\* deadline times dl_runtime, and dl_deadline times the runtime left.
TimeLeftByBudget == S64(tasks[1].deadline - clock) * tasks[pc.overflow[1]].dl_runtime
RelDeadlineByRuntime == tasks[pc.overflow[1]].dl_deadline * tasks[1].runtime

\* A difference that fits the signed word.
FitsWord(x) == 0 - (TwoW \div 2) <= x /\ x < TwoW \div 2

---------------------------------------------------------------------------
(* The enqueue of a waking task *)

\* The deadline and runtime of an instance that starts now with the
\* parameters of entity pi.
StartsInstance(p, pi) ==
    /\ tasks'[p].deadline = U64(clock + tasks[pi].dl_deadline)
    /\ tasks'[p].runtime = tasks[pi].dl_runtime

\* The wakeup of p has enqueued it as stated, with the parameters of pi.
EnqueuedAsStated(p, pi) ==
    IF tasks[p].dl_new
    THEN StartsInstance(p, pi) /\ ~tasks'[p].dl_new
    ELSE IF \/ dl_time_before(tasks[p].deadline, clock)
            \/ dl_entity_overflow(State, p, pi, clock)
         THEN StartsInstance(p, pi)
         ELSE /\ tasks'[p].deadline = tasks[p].deadline
              /\ tasks'[p].runtime = tasks[p].runtime

---------------------------------------------------------------------------
(* Bandwidth enforcement at an accounting point *)

\* update_curr_dl() on cpu c charges the running task: it is a deadline
\* task that is on the ready tree.
Charges(c) == rqs[c].curr # NoTask /\ on_dl_rq(State, rqs[c].curr)

\* The runtime the running task of c is left with by the charge.
RuntimeAfterCharge(c) ==
    LET curr == rqs[c].curr
        raw == U64(clock - tasks[curr].exec_start)
    IN  tasks[curr].runtime - (IF S64(raw) < 0 THEN 0 ELSE raw)

\* The running task of c, not HEAD, is out of runtime after the charge or
\* past its deadline.
Exhausted(c) ==
    /\ FLAG_SF_HEAD \notin tasks[rqs[c].curr].flags
    /\ \/ RuntimeAfterCharge(c) <= 0
       \/ dl_time_before(tasks[rqs[c].curr].deadline, clock)

\* The tick has taken p off both trees of c, armed its timer and
\* throttled it.
TickThrottled(c, p) ==
    /\ ~InSeq(rqs'[c].tree, p)
    /\ ~InSeq(rqs'[c].pushable, p)
    /\ tasks'[p].timer_active
    /\ tasks'[p].dl_throttled
    /\ tasks'[p].deadline = tasks[p].deadline

\* The tick has put p back on the ready tree through the replenish path
\* (a new instance when dl_new is set), not throttled and without arming
\* its timer.
TickRequeued(c, p) ==
    /\ InSeq(rqs'[c].tree, p)
    /\ ~InSeq(rqs'[c].pushable, p)
    /\ tasks'[p].timer_active = tasks[p].timer_active
    /\ ~tasks'[p].dl_throttled
    /\ LET s1 == dl_runtime_exceeded(
                     [State EXCEPT !.t[p].runtime = RuntimeAfterCharge(c)], c, p).s
           s2 == IF s1.t[p].dl_new
                 THEN setup_new_dl_entity(s1, p, PiOf(p))
                 ELSE replenish_dl_entity(s1, p, PiOf(p))
       IN  /\ tasks'[p].deadline = s2.t[p].deadline
           /\ tasks'[p].runtime = s2.t[p].runtime

\* The tick has left the membership of p in the trees of c, its deadline
\* and its throttle flag as they were.
TickLeftAlone(c, p) ==
    /\ InSeq(rqs'[c].tree, p) = InSeq(rqs[c].tree, p)
    /\ InSeq(rqs'[c].pushable, p) = InSeq(rqs[c].pushable, p)
    /\ tasks'[p].deadline = tasks[p].deadline
    /\ tasks'[p].dl_throttled = tasks[p].dl_throttled
    /\ tasks'[p].timer_active = tasks[p].timer_active

---------------------------------------------------------------------------
(* The callback of the replenishment timer *)

\* The callback has left the throttle flag, the pair and every runqueue
\* as they were.
CallbackDidNothing(p) ==
    /\ tasks'[p].dl_throttled = tasks[p].dl_throttled
    /\ tasks'[p].runtime = tasks[p].runtime
    /\ tasks'[p].deadline = tasks[p].deadline
    /\ rqs' = rqs

\* The callback has put p on a ready tree with the pair the REPLENISH
\* enqueue gives it, and check_preempt_curr_dl() has asked the cpu of p
\* to reschedule if p has the earlier deadline.
CallbackEnqueued(p) ==
    LET c == tasks[p].cpu
        s1 == enqueue_task_dl([State EXCEPT !.t[p].dl_throttled = FALSE],
                              c, p, {ENQUEUE_REPLENISH})
    IN  /\ on_dl_rq(State', p)
        /\ tasks'[p].runtime = s1.t[p].runtime
        /\ tasks'[p].deadline = s1.t[p].deadline
        /\ (rqs[c].curr = NoTask \/ dl_entity_preempt(s1, p, rqs[c].curr))
               => rqs'[c].need_resched

CallbackPushes(p) ==
    enqueue_task_dl([State EXCEPT !.t[p].dl_throttled = FALSE],
                    tasks[p].cpu, p, {ENQUEUE_REPLENISH}).q[tasks[p].cpu].overloaded

\* The push of the callback has charged p, the running task of its cpu,
\* for the time it ran while throttled: p is off the trees and throttled
\* again, its timer armed for the deadline the replenishment gave it.
CallbackRethrottled(p) ==
    /\ rqs[tasks[p].cpu].curr = p
    /\ ~on_dl_rq(State', p)
    /\ tasks'[p].dl_throttled
    /\ tasks'[p].timer_active
    /\ tasks'[p].runtime <= 0
    /\ tasks'[p].deadline =
           replenish_dl_entity(State, p, PiOf(p)).t[p].deadline
    /\ rqs'[tasks[p].cpu].need_resched

\* The push of the callback has moved p itself to another cpu: p is on
\* the ready tree there, with the pair update_dl_entity() makes of the
\* replenished one when the migration enqueues p.
CallbackPushedAway(p) ==
    LET s1 == enqueue_task_dl([State EXCEPT !.t[p].dl_throttled = FALSE],
                              tasks[p].cpu, p, {ENQUEUE_REPLENISH})
        s2 == update_dl_entity(s1, p, PiOf(p))
    IN  /\ tasks'[p].cpu # tasks[p].cpu
        /\ on_dl_rq(State', p)
        /\ ~tasks'[p].dl_throttled
        /\ ~tasks'[p].timer_active
        /\ tasks'[p].runtime = s2.t[p].runtime
        /\ tasks'[p].deadline = s2.t[p].deadline

---------------------------------------------------------------------------
(* Priority inheritance: whose parameters an enqueue uses *)

\* The entity whose parameters the enqueue of p uses by the relative
\* deadlines: the top waiter if its relative deadline is the smaller.
PiByRelativeDeadline(p) ==
    LET w == tasks[p].pi_top_task
    IN  IF w # NoTask /\ tasks[w].dl_deadline < tasks[p].dl_deadline
        THEN w ELSE p

\* The enqueue has left the declared parameters of p as they were.
ParametersKept(p) ==
    /\ tasks'[p].dl_runtime = tasks[p].dl_runtime
    /\ tasks'[p].dl_deadline = tasks[p].dl_deadline
    /\ tasks'[p].dl_period = tasks[p].dl_period

\* C28 (as stated): the wakeup of a task with a top waiter decides
\* deadline and runtime with the waiter's parameters exactly when the
\* relative deadline of the waiter is smaller than the task's own, and
\* leaves the declared parameters of the task unchanged.
C28_WaiterUsedWhenRelativeDeadlineSmaller ==
    [][\A p \in Tasks, this_cpu \in CPUs :
          (/\ tasks[p].pi_top_task # NoTask
           /\ ~tasks[p].dl_throttled
           /\ Wakeup(p, this_cpu)) =>
              /\ EnqueuedAsStated(p, PiByRelativeDeadline(p))
              /\ ParametersKept(p)]_vars

\* What the code does: the waiter's parameters are used exactly when the
\* waiter preempts the task by dl_entity_preempt(), which compares the
\* absolute deadlines the two entities have at the time of the enqueue.
C28_WaiterUsedWhenItPreempts ==
    [][\A p \in Tasks, this_cpu \in CPUs :
          (/\ tasks[p].pi_top_task # NoTask
           /\ ~tasks[p].dl_throttled
           /\ Wakeup(p, this_cpu)) =>
              /\ EnqueuedAsStated(p, PiOf(p))
              /\ ParametersKept(p)]_vars

---------------------------------------------------------------------------
(* The search for a later runqueue *)

\* The cpus p may run on whose runqueue has no deadline task or has an
\* earliest deadline later than that of p.
Candidates(p) ==
    {c \in DOMAIN rqs :
        /\ c \in tasks[p].cpus_allowed
        /\ \/ rqs[c].dl_nr_running = 0
           \/ dl_time_before(tasks[p].deadline, rqs[c].earliest_curr)}

\* The candidates the first step may choose: the empty ones if there is
\* one, else those with the latest earliest deadline.
Step1Choices(p) ==
    LET empty == {c \in Candidates(p) : rqs[c].dl_nr_running = 0}
    IN  IF empty # {} THEN empty
        ELSE {c \in Candidates(p) :
                 \A o \in Candidates(p) :
                     ~dl_time_before(rqs[c].earliest_curr, rqs[o].earliest_curr)}

\* The cpu the first step chose.
Step1Choice(p) == latest_cpu_find(State, p).found

\* The levels of the domain hierarchy of p's last cpu that are wake-affine
\* and hold cpu c.
AffineLevels(p, c) ==
    LET doms == SchedDomains(State, tasks[p].cpu)
    IN  {i \in 1..Len(doms) : doms[i].wake_affine /\ c \in doms[i].span}

\* The search returns -1 exactly when p is pinned or has no candidate,
\* and a candidate otherwise; its first step chooses as stated.
FindsCandidate(p, found) ==
    /\ found = NoCpu <=> (tasks[p].nr_cpus_allowed = 1 \/ Candidates(p) = {})
    /\ found # NoCpu => found \in Candidates(p)
    /\ Candidates(p) # {} => Step1Choice(p) \in Step1Choices(p)

\* C29 (as stated): the search returns -1 when p is pinned or has no
\* candidate and a candidate otherwise; the first step chooses an empty
\* candidate, else one with the latest earliest deadline; the result is
\* p's last cpu if it is a candidate, else the calling cpu if it is a
\* candidate inside a wake-affine domain, else the choice of the first
\* step.
C29_LastThenCallingThenStep1 ==
    pc.later # <<>> =>
        LET this == pc.later[1]
            found == pc.later[2]
        IN  /\ FindsCandidate(1, found)
            /\ found # NoCpu =>
                   found = IF tasks[1].cpu \in Candidates(1) THEN tasks[1].cpu
                           ELSE IF /\ this \in Candidates(1)
                                   /\ AffineLevels(1, this) # {}
                                THEN this
                           ELSE Step1Choice(1)

\* C29: as above, except that the domains are walked from the lowest
\* level up and the preference is taken level by level: at the lowest
\* wake-affine level that holds the calling cpu (if a candidate) or the
\* choice of the first step, the calling cpu wins if that level holds it
\* and the first step's choice wins otherwise; with no such level the
\* result is the calling cpu if it is a candidate and else the lowest
\* numbered candidate.
C29_PreferenceLevelByLevel ==
    pc.later # <<>> =>
        LET this == pc.later[1]
            found == pc.later[2]
            calling == IF this \in Candidates(1) THEN {this} ELSE {}
            levels == UNION {AffineLevels(1, c) : c \in calling \cup {Step1Choice(1)}}
            lowest == CHOOSE i \in levels : \A j \in levels : i <= j
        IN  /\ FindsCandidate(1, found)
            /\ found # NoCpu =>
                   found = IF tasks[1].cpu \in Candidates(1) THEN tasks[1].cpu
                           ELSE IF levels # {}
                                THEN IF calling # {} /\ lowest \in AffineLevels(1, this)
                                     THEN this ELSE Step1Choice(1)
                           ELSE IF calling # {} THEN this
                           ELSE CHOOSE c \in Candidates(1) :
                                    \A o \in Candidates(1) : c <= o

\* A search from a candidate cpu that is in a wake-affine domain of the
\* task's last cpu has returned the choice of the first step, which lies
\* in a lower domain.
C29_Step1ChoiceOverCallingCpu ==
    /\ pc.later # <<>>
    /\ pc.later[1] \in Candidates(1)
    /\ AffineLevels(1, pc.later[1]) # {}
    /\ pc.later[2] # pc.later[1]
    /\ pc.later[2] # tasks[1].cpu
    /\ pc.later[2] = Step1Choice(1)

---------------------------------------------------------------------------
(* The migration of a push that waited for a lock *)

\* The push that waited migrates its task in this step.
PushMigrates ==
    /\ pc.push # <<>>
    /\ pc'.push = <<>>
    /\ tasks'[pc.push[1].task].cpu # tasks[pc.push[1].task].cpu

\* C30: when a push that released the lock of its runqueue to take that
\* of the runqueue it found migrates its task, the task is, in the state
\* the migration starts from (both locks held), still queued on the
\* source runqueue, not running, allowed on the target cpu, and the
\* target has no deadline task or an earliest deadline later than that of
\* the task, whatever the other cpus did while the push waited.
C30_MigratesOnlyWhatItRechecked ==
    [][PushMigrates =>
          LET task == pc.push[1].task
              c == pc.push[1].rq
              to == tasks'[task].cpu
          IN  /\ tasks[task].cpu = c
              /\ tasks[task].on_rq
              /\ rqs[c].curr # task
              /\ to \in tasks[task].cpus_allowed
              /\ \/ rqs[to].dl_nr_running = 0
                 \/ dl_time_before(tasks[task].deadline, rqs[to].earliest_curr)]_vars

\* A push that waited has migrated its task although the runqueue it had
\* found, or the deadline of the task, changed while it waited.
C30_MigratedAfterOthersActed ==
    /\ pc.moved # <<>>
    /\ pc.moved[1].changed
    /\ tasks[pc.moved[1].task].cpu = pc.moved[1].to

---------------------------------------------------------------------------
(* The attempts of find_lock_later_rq() and the task it gives up *)

\* The push that waited ends in this step.
PushEnds == pc.push # <<>> /\ pc'.push = <<>>

\* The push that waited ends, and its task has left the pushable tree of
\* its runqueue without leaving the runqueue.
PushDrops ==
    /\ PushEnds
    /\ InSeq(rqs[pc.push[1].rq].pushable, pc.push[1].task)
    /\ ~InSeq(rqs'[pc.push[1].rq].pushable, pc.push[1].task)
    /\ tasks'[pc.push[1].task].cpu = pc.push[1].rq

---------------------------------------------------------------------------
(* What pull_dl_task() takes *)

\* The tasks the pull of a schedule() on cpu c brings onto its runqueue.
PulledBy(c, sleep) ==
    LET s1 == schedule_deactivate(State, c, sleep)
        s2 == pull_dl_task(s1, c).s
    IN  {q \in DOMAIN tasks : s1.t[q].cpu # c /\ s2.t[q].cpu = c}

\* schedule() on cpu c can run now, with a previous task for whose sake
\* pre_schedule_dl() pulls.
ScheduleCanPull(c, sleep) ==
    /\ rqs[c].curr # NoTask
    /\ sleep => tasks[rqs[c].curr].on_rq

\* q is earlier than the earliest task of the pulling cpu c, if it has
\* one, and than every task the pass has pulled from a cpu before that
\* of q.
EarlierThanOursAndPulled(c, sleep, q) ==
    LET s1 == schedule_deactivate(State, c, sleep)
    IN  /\ \/ s1.q[c].dl_nr_running = 0
           \/ dl_time_before(tasks[q].deadline, s1.q[c].earliest_curr)
        /\ \A o \in PulledBy(c, sleep) :
              tasks[o].cpu < tasks[q].cpu
                  => dl_time_before(tasks[q].deadline, tasks[o].deadline)

\* C32 (as stated): the pull of any schedule() that can run takes a task
\* only if its deadline is earlier than the earliest one of the pulling
\* cpu (or that cpu has no deadline task), earlier than that of every
\* task pulled before it in the pass, and earlier than that of the task
\* running on the remote cpu, if one is.
C32_PulledEarlierThanRemoteCurr ==
    \A c \in CpusFind, sleep \in BOOLEAN :
        ScheduleCanPull(c, sleep) =>
            \A q \in PulledBy(c, sleep) :
                /\ EarlierThanOursAndPulled(c, sleep, q)
                /\ rqs[tasks[q].cpu].curr # NoTask
                       => dl_time_before(tasks[q].deadline,
                                         tasks[rqs[tasks[q].cpu].curr].deadline)

\* The first two conditions hold of every pulled task, and the third one
\* the other way round: no pulled task is earlier than the task running
\* on the remote cpu.
C32_PulledNotEarlierThanRemoteCurr ==
    \A c \in CpusFind, sleep \in BOOLEAN :
        ScheduleCanPull(c, sleep) =>
            \A q \in PulledBy(c, sleep) :
                /\ EarlierThanOursAndPulled(c, sleep, q)
                /\ ~dl_time_before(tasks[q].deadline,
                                   Deadline(State, rqs[tasks[q].cpu].curr))

---------------------------------------------------------------------------
(* What pull_dl_task() leaves behind *)

\* C33: the pull of any schedule() that can run takes from a remote
\* runqueue neither its leftmost entity nor its running task, takes no
\* pinned task and no task that is not allowed on the pulling cpu, and
\* takes nothing from a runqueue with fewer than two deadline entities:
\* every remote runqueue it takes from keeps a deadline entity.
C33_PullLeavesLeftmost ==
    \A c \in CpusFind, sleep \in BOOLEAN :
        ScheduleCanPull(c, sleep) =>
            \A q \in PulledBy(c, sleep) :
                LET src == rqs[tasks[q].cpu]
                    after == pull_dl_task(schedule_deactivate(State, c, sleep), c).s
                IN  /\ q # src.rb_leftmost
                    /\ q # Head(src.tree)
                    /\ q # src.curr
                    /\ tasks[q].nr_cpus_allowed > 1
                    /\ c \in tasks[q].cpus_allowed
                    /\ src.dl_nr_running >= 2
                    /\ after.q[tasks[q].cpu].dl_nr_running >= 1
                    /\ after.q[tasks[q].cpu].tree # <<>>
                    /\ Head(after.q[tasks[q].cpu].tree) = Head(src.tree)

\* A pull takes a task and passes over an earlier one of the same remote
\* runqueue, neither leftmost nor running, that is pinned or not allowed
\* on the pulling cpu.
C33_PullPassesOverDisallowed ==
    \E c \in CpusFind, sleep \in BOOLEAN :
        /\ ScheduleCanPull(c, sleep)
        /\ \E q \in PulledBy(c, sleep) :
              LET src == rqs[tasks[q].cpu]
              IN  \E o \in SeqSet(src.tree) \ {src.rb_leftmost, src.curr, q} :
                     /\ IndexOf(src.tree, o) < IndexOf(src.tree, q)
                     /\ \/ c \notin tasks[o].cpus_allowed
                        \/ tasks[o].nr_cpus_allowed = 1

---------------------------------------------------------------------------
(* The calls push_dl_tasks() makes *)

\* The runqueues on which a hook that can run now starts push_dl_tasks(),
\* each with the state the loop starts from: post_schedule_dl() after a
\* switch, task_woken_dl() after a wakeup.
PushStarts ==
    {[s |-> schedule_pick(State, x[1], x[2]).s, c |-> x[1]] :
        x \in {y \in (DOMAIN rqs) \X BOOLEAN :
                 /\ y[2] => /\ rqs[y[1]].curr # NoTask
                            /\ tasks[rqs[y[1]].curr].on_rq
                 /\ schedule_pick(State, y[1], y[2]).post_schedule}} \cup
    {[s |-> ttwu_activate(State, x[1], x[2]).s,
      c |-> ttwu_activate(State, x[1], x[2]).cpu] :
        x \in {y \in (DOMAIN tasks) \X (DOMAIN rqs) :
                 /\ tasks[y[1]].alive
                 /\ ~tasks[y[1]].on_rq
                 /\ LET r == ttwu_activate(State, y[1], y[2])
                    IN  task_woken_dl_pushes(r.s, r.cpu, y[1])}}

\* The number of calls of push_dl_task() the loop makes from s, at most
\* fuel, and what they do: every call that returns 1 takes one task off
\* the pushable tree, by migrating it or by leaving it to the pull of
\* another cpu, or finds the tree empty.
RECURSIVE PushCalls(_, _, _)
PushCalls(s, c, fuel) ==
    IF fuel = 0 THEN [n |-> 0, shrinks |-> TRUE, moves |-> 0, drops |-> 0]
    ELSE LET r == push_dl_task(s, c, c)
             was == SeqSet(s.q[c].pushable)
             is == SeqSet(r.s.q[c].pushable)
             gone == was \ is
             moved == {q \in gone : r.s.t[q].cpu # c}
             rest == IF r.ret THEN PushCalls(r.s, c, fuel - 1)
                     ELSE [n |-> 0, shrinks |-> TRUE, moves |-> 0, drops |-> 0]
         IN  [n |-> 1 + rest.n,
              shrinks |-> /\ rest.shrinks
                          /\ r.ret => /\ is \subseteq was
                                      /\ \/ Cardinality(gone) = 1
                                         \/ was = {},
              moves |-> rest.moves + Cardinality(moved),
              drops |-> rest.drops + Cardinality(gone \ moved)]

MaxPushCalls == 12

\* C34: the loop of push_dl_tasks(), run with the lock of its runqueue
\* and no other cpu acting, makes at most one call of push_dl_task() more
\* than there are pushable tasks: every call that returns non-zero has
\* migrated one task away or taken one task off the pushable tree, or
\* has found the tree empty.
C34_PushLoopEndsWithinPushable ==
    \A st \in PushStarts :
        LET calls == PushCalls(st.s, st.c, MaxPushCalls)
        IN  /\ calls.shrinks
            /\ calls.n <= Len(st.s.q[st.c].pushable) + 1

\* While another cpu runs a task, a hook can start a loop that gives one
\* task up, migrates another and ends with its third call or later.
C34_LoopDropsThenMigrates ==
    \E st \in PushStarts :
        LET calls == PushCalls(st.s, st.c, MaxPushCalls)
        IN  /\ calls.n >= 3
            /\ calls.moves >= 1
            /\ calls.drops >= 1
            /\ \E o \in CpusFind \ {st.c} : rqs[o].curr # NoTask

---------------------------------------------------------------------------
(* No throttled task is stranded *)

\* p is a deadline task that update_curr_dl() has throttled.
ThrottledInClass(p) ==
    /\ tasks[p].alive
    /\ dl_policy(tasks[p].policy)
    /\ tasks[p].dl_throttled

\* p is not throttled and, if it is runnable, it is in the ready tree of its
\* cpu with budget left.
BackWithBudget(p) ==
    /\ ~tasks[p].dl_throttled
    /\ tasks[p].on_rq =>
           /\ InSeq(rqs[tasks[p].cpu].tree, p)
           /\ S64(tasks[p].runtime) > 0

\* The clock of the model has stopped before the timer of p is due.
TimeIsUp(p) ==
    /\ clock = pc.horizon
    /\ tasks[p].timer_active
    /\ ~tasks[p].timer_running
    /\ tasks[p].timer_expires > clock + hrskew

\* C35: a task that update_curr throttles and that stays in the deadline
\* class is eventually un-throttled by its timer callback, provided armed
\* timers fire; a callback that un-throttles a runnable task leaves it in
\* the ready tree of its cpu with runtime > 0, and a callback that leaves
\* its task throttled leaves the timer armed, so that no throttled task
\* is stranded.
C35_ThrottledEventuallyReplenished ==
    /\ \A p \in Tasks :
           ThrottledInClass(p) ~>
               (BackWithBudget(p) \/ ~dl_policy(tasks[p].policy) \/ TimeIsUp(p))
    /\ [](\A p \in Tasks, this_cpu \in CPUs :
             tasks[p].timer_running /\ dl_policy(tasks[p].policy) =>
                 LET s == dl_task_timer(State, p, this_cpu)
                 IN  IF s.t[p].dl_throttled
                     THEN s.t[p].timer_active /\ ~s.t[p].timer_running
                     ELSE s.t[p].on_rq =>
                              /\ InSeq(s.q[s.t[p].cpu].tree, p)
                              /\ S64(s.t[p].runtime) > 0)

\* A runnable task un-throttled by its callback is back in the ready tree
\* with budget, while another task waits throttled for its timer.
C35_ReplenishedByCallback ==
    \E p \in Tasks :
        /\ p \in pc.cleared
        /\ tasks[p].on_rq
        /\ BackWithBudget(p)
        /\ clock < pc.horizon

---------------------------------------------------------------------------
(* The assertions of the queues *)

QueueAssertions ==
    {"enqueue_dl_entity", "enqueue_pushable_dl_task", "pick_next_pushable_dl_task"}

\* What pick_next_pushable_dl_task() asserts of the task it returns.
PushableLeftmostFit(c) ==
    LET p == rqs[c].pushable_leftmost
    IN  p # NoTask =>
            /\ tasks[p].cpu = c
            /\ rqs[c].curr # p
            /\ tasks[p].nr_cpus_allowed > 1
            /\ tasks[p].on_rq
            /\ dl_policy(tasks[p].policy)

---------------------------------------------------------------------------
(* The ordering key of a queued entity *)

\* The entities of seq that are not HEAD are in deadline order.
InDeadlineOrder(seq) ==
    \A i, j \in 1..Len(seq) :
        /\ i < j
        /\ ~IsHead(seq[i])
        /\ ~IsHead(seq[j])
        => ~dl_time_before(tasks[seq[j]].deadline, tasks[seq[i]].deadline)

\* The deadline the step leaves p with is one enqueue_dl_entity() gives:
\* that of a new instance (setup_new_dl_entity, the renewal of
\* update_dl_entity, the reset of replenish_dl_entity) or the old one moved
\* by whole periods (replenish_dl_entity).
DeadlineOfEnqueue(p) ==
    LET pi == PiOf(p)
    IN  \/ tasks'[p].deadline = U64(clock + tasks'[pi].dl_deadline)
        \/ /\ S64(tasks'[p].deadline - tasks[p].deadline) > 0
           /\ S64(tasks'[p].deadline - tasks[p].deadline) % tasks'[pi].dl_period = 0

\* update_curr_dl() has taken p, the running task of its cpu, off the
\* ready tree and queued it back.
RequeuedCurr(p) ==
    LET c == tasks[p].cpu
    IN  /\ rqs[c].curr = p
        /\ ~InSeq(rqs[c].pushable, p)
        /\ ~tasks'[p].dl_throttled
        /\ InSeq(rqs'[c].tree, p)
        /\ ~InSeq(rqs'[c].pushable, p)
        /\ rqs'[c].need_resched
        /\ DeadlineOfEnqueue(p)

\* C37: the deadline of an entity that is in a ready tree or a pushable
\* tree changes only through enqueue_dl_entity(), which runs on entities
\* that are in no tree: a tick changes the deadline of the running task
\* only, and only by taking it off the tree and queueing it back; any
\* other step leaves a queued entity with the deadline it had or with one
\* that an insertion gives; both trees of every cpu are in deadline order
\* and hold no entity twice, every pushable task is in the ready tree.
C37_QueuedDeadlineStable ==
    /\ [][\A p \in Tasks :
             /\ on_dl_rq(State, p) \/ in_pushable(State, p)
             /\ tasks'[p].deadline # tasks[p].deadline
             => /\ DeadlineOfEnqueue(p)
                /\ \A c \in CPUs : Tick(c) => RequeuedCurr(p)]_vars
    /\ []("enqueue_dl_entity" \notin bug)
    /\ [](\A c \in DOMAIN rqs :
             /\ InDeadlineOrder(rqs[c].tree)
             /\ InDeadlineOrder(rqs[c].pushable)
             /\ SeqSet(rqs[c].pushable) \subseteq SeqSet(rqs[c].tree))

\* The running task was charged, taken off the ready tree and queued back
\* with its deadline moved by whole periods, behind an entity that kept
\* its deadline on the ready tree and on the pushable tree.
C37_RequeuedBehindQueued ==
    \E c \in CPUs, p \in Tasks :
        /\ rqs[c].curr \notin {NoTask, p}
        /\ rqs[c].need_resched
        /\ rqs[c].rb_leftmost = p
        /\ InSeq(rqs[c].tree, rqs[c].curr)
        /\ InSeq(rqs[c].pushable, p)
        /\ tasks[rqs[c].curr].exec_start = clock
        /\ tasks[rqs[c].curr].sum_exec_runtime > 0
        /\ S64(tasks[rqs[c].curr].deadline - clock) > tasks[rqs[c].curr].dl_deadline

---------------------------------------------------------------------------
(* One tree for every entity *)

\* C38: between operations every entity is in the ready tree of at most
\* one cpu, the cpu of its task, and once in it; a pushable task is in the
\* ready tree of the same cpu; a runnable deadline task that is not
\* throttled is in the ready tree of its cpu, so that pushes and pulls of
\* different cpus, each made with both runqueue locks held, neither
\* duplicate nor lose a task.
C38_EntityInOneTree ==
    /\ \A c \in DOMAIN rqs :
           /\ Cardinality(SeqSet(rqs[c].tree)) = Len(rqs[c].tree)
           /\ Cardinality(SeqSet(rqs[c].pushable)) = Len(rqs[c].pushable)
           /\ rqs[c].dl_nr_running = Len(rqs[c].tree)
           /\ \A p \in SeqSet(rqs[c].tree) : tasks[p].cpu = c /\ tasks[p].on_rq
           /\ \A p \in SeqSet(rqs[c].pushable) :
                  tasks[p].cpu = c /\ InSeq(rqs[c].tree, p)
    /\ \A p \in DOMAIN tasks :
           /\ tasks[p].alive
           /\ dl_policy(tasks[p].policy)
           /\ tasks[p].on_rq
           /\ ~tasks[p].dl_throttled
           => InSeq(rqs[tasks[p].cpu].tree, p)

\* A push that waited for the lock of another runqueue while other cpus
\* acted has moved its task: the task is in the ready tree of the cpu it
\* was pushed to, and of no other.
C38_PushedTaskInOneTree ==
    /\ pc.moved # <<>>
    /\ pc.moved[1].from # pc.moved[1].to
    /\ tasks[pc.moved[1].task].cpu = pc.moved[1].to
    /\ InSeq(rqs[pc.moved[1].to].tree, pc.moved[1].task)
    /\ ~InSeq(rqs[pc.moved[1].from].tree, pc.moved[1].task)
    /\ rqs[pc.moved[1].from].curr # NoTask

====
